---- MODULE Spec2Model ----
(***************************************************************************)
(* cachebox: namespace versioning (CacheNS), the cache facade with its     *)
(* bypass states, the key-lock coordinator (contention), the tiered        *)
(* MultiStorage, the hook wrapper of a Storage and the gzip option,        *)
(* modelled as state machines over an abstract Storage.                    *)
(*                                                                         *)
(*   Spec        callers of namespace handles, invalidating through Delete *)
(*   SpecFacade  callers of the six facade operations in each bypass state *)
(*   SpecKL      concurrent callers of a cache built with WithKeyLock()    *)
(*   SpecMulti   callers of a MultiStorage over one to MaxTiers storages   *)
(*   SpecWrap    builders and readers of storage wrappers                  *)
(*   SpecRes     goroutines resolving a namespace version concurrently     *)
(*   SpecGzip    callers of a cache built with WithGzipCompression(level)  *)
(*   SpecOpt     callers of a cache built with both options, either order  *)
(*   SpecKLFair  SpecKL's goroutines on one key, under fair scheduling     *)
(*   SpecPipe    builders of storage wrappers and callers of their Set     *)
(*   SpecThreads threads calling Get and Set on shared or own handles      *)
(*   SpecKLNS    namespace handles over a key-locked cache, recyclable     *)
(*   SpecKLDup   callers of GetMulti with a repeated key, key-locked cache *)
(***************************************************************************)
EXTENDS Integers, Sequences, FiniteSets, TLC

(***************************************************************************)
(* Bounds of the model.                                                    *)
(***************************************************************************)
MaxClock == 4        \* readings of now() taken in one behaviour
MaxHandles == 2      \* namespace handles alive at the same time
MaxSteps == 5        \* calls made on the facade and its handles in one behaviour
MaxItems == 2        \* in-flight items allocated in one behaviour
MaxProcs == 3        \* goroutines calling the key-locked cache
MaxCalls == 5        \* calls made on the key-locked cache in one behaviour
MaxTiers == 3        \* storages behind one MultiStorage
MaxWrappers == 4     \* storage wrappers built in one behaviour
MaxHooks == 2        \* hooks registered by one call of newStorageWrapper
MaxResolvers == 2    \* goroutines resolving a namespace version at the same time
MaxResolutions == 3  \* resolutions started in one behaviour
MaxGzLen == 2        \* bytes of a value handed to a cache with gzip compression
MaxOptProcs == 3     \* goroutines calling the cache built with both options
MaxOptCalls == 4     \* calls made on the cache built with both options
MaxPipeWrappers == 4 \* storage wrappers with write hooks built in one behaviour
MaxFault == 2        \* the calls of a hook among which one may fail
MaxThreads == 3      \* threads calling namespace handles at the same time
MaxThreadOps == 3    \* calls the threads make on their handles in one behaviour
MaxDeletes == 1      \* deletions of a namespace key while the threads run
MaxDupProcs == 2     \* goroutines calling GetMulti with a repeated key

(***************************************************************************)
(* Byte slices.  A Go []byte is nil or a (possibly empty) byte string.     *)
(***************************************************************************)
nil == [isNil |-> TRUE, bytes |-> <<>>]

Bytes(s) == [isNil |-> FALSE, bytes |-> s]

NoError == "<nil>"
ErrStore == "store error"

\* type bypass int; bypassFromContext yields bypass(-1) without a state.
NoBypass == -1
BypassReading == 0
BypassReadWriting == 1

Bypasses == {NoBypass, BypassReading, BypassReadWriting}

\* NewCache: nsttl is 12 * time.Hour; durations are counted in minutes.
nsttl == 720
Minute == 1

NSKeys == {"nskey1", "nskey2"}
NSLists == {<<"nskey2">>, <<"nskey1", "nskey2">>}
UserKeys == {"key1"}
PlainKeys == {"key1", "key2"}
Payloads == {<<>>, <<7>>}
Handles == 1..MaxHandles

Range(s) == {s[i] : i \in 1..Len(s)}

Item(key, value, ttl) == [Key |-> key, Value |-> value, TTL |-> ttl]

(***************************************************************************)
(* Storage: MGet, Set and Delete over a map from key to bytes.  A call     *)
(* that fails leaves the map as it was.                                    *)
(***************************************************************************)
StorageMGet(st, keys) ==
    [i \in 1..Len(keys) |-> IF keys[i] \in DOMAIN st THEN st[keys[i]] ELSE nil]

RECURSIVE StorageSet(_, _)
StorageSet(st, its) ==
    IF its = <<>> THEN st
    ELSE LET it == Head(its)
             st1 == [k \in DOMAIN st \cup {it.Key} |->
                        IF k = it.Key THEN it.Value ELSE st[k]]
         IN StorageSet(st1, Tail(its))

StorageDelete(st, keys) == [k \in DOMAIN st \ Range(keys) |-> st[k]]

MGetCall(keys, err) == [fn |-> "MGet", keys |-> keys, items |-> <<>>, err |-> err]
SetCall(its, err) == [fn |-> "Set", keys |-> <<>>, items |-> its, err |-> err]
DeleteCall(keys, err) == [fn |-> "Delete", keys |-> keys, items |-> <<>>, err |-> err]

FailErr(fail, n) == IF fail = n THEN ErrStore ELSE NoError

(***************************************************************************)
(* cachens.go helpers.                                                     *)
(***************************************************************************)
\* now().UnixNano(): every reading is later than the one before.
now(clk) == clk + 1

RECURSIVE putUint(_, _)
putUint(i, n) == IF n = 0 THEN <<>> ELSE <<i % 256>> \o putUint(i \div 256, n - 1)

\* binary.LittleEndian.PutUint64(b, uint64(i)) on 8 bytes
marshalInt64(i) == putUint(i, 8)

RECURSIVE horner(_, _, _)
horner(b, n, acc) == IF n = 0 THEN acc ELSE horner(b, n - 1, acc * 256 + b[n])

\* int64(binary.LittleEndian.Uint64(b)): the top byte carries the sign
unmarshalInt64(b) ==
    horner(b, 7, IF b[8] >= 128 THEN b[8] - 256 ELSE b[8])

\* splitVersion cutting the prefix one byte short
splitVersion_OffByOne(b) ==
    [version |-> unmarshalInt64(SubSeq(b, 1, 8)), b |-> SubSeq(b, 8, Len(b))]

splitVersion(b) ==
    [version |-> unmarshalInt64(SubSeq(b, 1, 8)), b |-> SubSeq(b, 9, Len(b))]

Digit(d) ==
    CASE d = 0 -> "0" [] d = 1 -> "1" [] d = 2 -> "2" [] d = 3 -> "3"
      [] d = 4 -> "4" [] d = 5 -> "5" [] d = 6 -> "6" [] d = 7 -> "7"
      [] d = 8 -> "8" [] d = 9 -> "9"

RECURSIVE FormatInt(_)
FormatInt(n) ==
    IF n < 0 THEN "-" \o FormatInt(0 - n)
    ELSE IF n < 10 THEN Digit(n)
    ELSE FormatInt(n \div 10) \o Digit(n % 10)

buildRecyclableKey(key) == "cachebox:recyc:" \o key

buildVersionedKey(key, version) == "cachebox:v" \o FormatInt(version) \o ":" \o key

Max(a, b) == IF b > a THEN b ELSE a

(***************************************************************************)
(* CacheNS.mostRecentTimestamp: the loop over the namespace keys, then the *)
(* single Set of the keys that were missing.  setErr is the error of that  *)
(* Set, should it be issued.                                               *)
(***************************************************************************)
\* a resolution that ignores the reply and stamps every namespace key anew
RECURSIVE mostRecentLoop_AlwaysStamp(_, _, _, _, _, _)
mostRecentLoop_AlwaysStamp(keys, bb, i, clk, most, its) ==
    IF i > Len(keys) THEN [ts |-> most, items |-> its, clock |-> clk]
    ELSE LET timestamp == now(clk)
         IN mostRecentLoop_AlwaysStamp(keys, bb, i + 1, timestamp,
                IF timestamp > most THEN timestamp ELSE most,
                Append(its, Item(keys[i], Bytes(marshalInt64(timestamp)), nsttl)))

RECURSIVE mostRecentLoop(_, _, _, _, _, _)
mostRecentLoop(keys, bb, i, clk, most, its) ==
    IF i > Len(keys) THEN [ts |-> most, items |-> its, clock |-> clk]
    ELSE IF bb[i].isNil
         THEN LET timestamp == now(clk)
              IN mostRecentLoop(keys, bb, i + 1, timestamp,
                     IF timestamp > most THEN timestamp ELSE most,
                     Append(its, Item(keys[i], Bytes(marshalInt64(timestamp)), nsttl)))
         ELSE LET timestamp == unmarshalInt64(bb[i].bytes)
              IN mostRecentLoop(keys, bb, i + 1, clk,
                     IF timestamp > most THEN timestamp ELSE most, its)

\* a resolution that writes each missing key with a Set of its own
mostRecentTimestamp_SetPerKey(st, clk, keys, bb, setErr) ==
    LET r == mostRecentLoop(keys, bb, 1, clk, 0, <<>>)
    IN IF Len(r.items) > 0
       THEN IF setErr # NoError
            THEN [ts |-> -1, err |-> setErr, store |-> st, clock |-> r.clock,
                  calls |-> <<SetCall(<<r.items[1]>>, setErr)>>]
            ELSE [ts |-> r.ts, err |-> NoError, store |-> StorageSet(st, r.items),
                  clock |-> r.clock,
                  calls |-> [i \in 1..Len(r.items) |-> SetCall(<<r.items[i]>>, NoError)]]
       ELSE [ts |-> r.ts, err |-> NoError, store |-> st, clock |-> r.clock,
             calls |-> <<>>]

\* a resolution that takes a failed Set of the missing keys for a success
mostRecentTimestamp_SwallowSetError(st, clk, keys, bb, setErr) ==
    LET r == mostRecentLoop(keys, bb, 1, clk, 0, <<>>)
    IN IF Len(r.items) > 0
       THEN IF setErr # NoError
            THEN [ts |-> r.ts, err |-> NoError, store |-> st, clock |-> r.clock,
                  calls |-> <<SetCall(r.items, setErr)>>]
            ELSE [ts |-> r.ts, err |-> NoError, store |-> StorageSet(st, r.items),
                  clock |-> r.clock, calls |-> <<SetCall(r.items, NoError)>>]
       ELSE [ts |-> r.ts, err |-> NoError, store |-> st, clock |-> r.clock,
             calls |-> <<>>]

mostRecentTimestamp(st, clk, keys, bb, setErr) ==
    LET r == mostRecentLoop(keys, bb, 1, clk, 0, <<>>)
    IN IF Len(r.items) > 0
       THEN IF setErr # NoError
            THEN [ts |-> -1, err |-> setErr, store |-> st, clock |-> r.clock,
                  calls |-> <<SetCall(r.items, setErr)>>]
            ELSE [ts |-> r.ts, err |-> NoError, store |-> StorageSet(st, r.items),
                  clock |-> r.clock, calls |-> <<SetCall(r.items, NoError)>>]
       ELSE [ts |-> r.ts, err |-> NoError, store |-> st, clock |-> r.clock,
             calls |-> <<>>]

\* a Get that never compares the stored version with the namespace version
nsGetReply_NoVersionCheck(bypass, recyc, nsversion, b) ==
    IF bypass = BypassReading \/ bypass = BypassReadWriting THEN nil
    ELSE IF b.isNil THEN nil
    ELSE IF recyc THEN Bytes(splitVersion(b.bytes).b)
    ELSE b

\* a Get that never looks at the bypass state
nsGetReply_IgnoreBypass(bypass, recyc, nsversion, b) ==
    IF b.isNil THEN nil
    ELSE IF recyc
         THEN LET sv == splitVersion(b.bytes)
              IN IF nsversion > sv.version THEN nil ELSE Bytes(sv.b)
         ELSE b

\* a Get that misses on a value stored at the very version of the handle
nsGetReply_StrictNewer(bypass, recyc, nsversion, b) ==
    IF bypass = BypassReading \/ bypass = BypassReadWriting THEN nil
    ELSE IF b.isNil THEN nil
    ELSE IF recyc
         THEN LET sv == splitVersion(b.bytes)
              IN IF nsversion >= sv.version THEN nil ELSE Bytes(sv.b)
         ELSE b

\* The tail of CacheNS.Get, after the candidate bytes b have been read.
nsGetReply(bypass, recyc, nsversion, b) ==
    IF bypass = BypassReading \/ bypass = BypassReadWriting THEN nil
    ELSE IF b.isNil THEN nil
    ELSE IF recyc
         THEN LET sv == splitVersion(b.bytes)
              IN IF nsversion > sv.version THEN nil ELSE Bytes(sv.b)
         ELSE b

Result(b, err, st, clk, ver, calls) ==
    [b |-> b, err |-> err, store |-> st, clock |-> clk, nsversion |-> ver,
     calls |-> calls]

\* a Get that reads the namespace keys again on a resolved handle
CacheNSGet_RereadNamespace(st, clk, recyc, nskeys, nsversion, bypass, key, fail) ==
    IF nsversion = 0
    THEN LET keys == IF recyc THEN Append(nskeys, buildRecyclableKey(key)) ELSE nskeys
             c1 == MGetCall(keys, FailErr(fail, 1))
             bb == StorageMGet(st, keys)
         IN IF c1.err # NoError
            THEN Result(nil, c1.err, st, clk, nsversion, <<c1>>)
            ELSE LET m == mostRecentTimestamp(st, clk, nskeys, bb, FailErr(fail, 2))
                     n == 1 + Len(m.calls)
                 IN IF m.err # NoError
                    THEN Result(nil, m.err, m.store, m.clock, nsversion, <<c1>> \o m.calls)
                    ELSE IF ~recyc
                         THEN LET vkey == buildVersionedKey(key, m.ts)
                                  c3 == MGetCall(<<vkey>>, FailErr(fail, n + 1))
                                  bb2 == StorageMGet(m.store, <<vkey>>)
                              IN IF c3.err # NoError
                                 THEN Result(nil, c3.err, m.store, m.clock, m.ts,
                                             (<<c1>> \o m.calls) \o <<c3>>)
                                 ELSE Result(nsGetReply(bypass, recyc, m.ts, bb2[Len(bb2)]),
                                             NoError, m.store, m.clock, m.ts,
                                             (<<c1>> \o m.calls) \o <<c3>>)
                         ELSE Result(nsGetReply(bypass, recyc, m.ts, bb[Len(bb)]),
                                     NoError, m.store, m.clock, m.ts, <<c1>> \o m.calls)
    ELSE LET wkey == IF recyc THEN buildRecyclableKey(key)
                     ELSE buildVersionedKey(key, nsversion)
             c1 == MGetCall(Append(nskeys, wkey), FailErr(fail, 1))
             bb == StorageMGet(st, Append(nskeys, wkey))
         IN IF c1.err # NoError
            THEN Result(nil, c1.err, st, clk, nsversion, <<c1>>)
            ELSE Result(nsGetReply(bypass, recyc, nsversion, bb[Len(bb)]), NoError, st,
                        clk, nsversion, <<c1>>)

(***************************************************************************)
(* CacheNS.Get.  fail numbers the store call of this Get that returns an   *)
(* error (0: none does).                                                   *)
(***************************************************************************)
CacheNSGet(st, clk, recyc, nskeys, nsversion, bypass, key, fail) ==
    IF nsversion = 0
    THEN LET keys == IF recyc THEN Append(nskeys, buildRecyclableKey(key)) ELSE nskeys
             c1 == MGetCall(keys, FailErr(fail, 1))
             bb == StorageMGet(st, keys)
         IN IF c1.err # NoError
            THEN Result(nil, c1.err, st, clk, nsversion, <<c1>>)
            ELSE LET m == mostRecentTimestamp(st, clk, nskeys, bb, FailErr(fail, 2))
                     n == 1 + Len(m.calls)
                 IN IF m.err # NoError
                    THEN Result(nil, m.err, m.store, m.clock, nsversion, <<c1>> \o m.calls)
                    ELSE IF ~recyc
                         THEN LET vkey == buildVersionedKey(key, m.ts)
                                  c3 == MGetCall(<<vkey>>, FailErr(fail, n + 1))
                                  bb2 == StorageMGet(m.store, <<vkey>>)
                              IN IF c3.err # NoError
                                 THEN Result(nil, c3.err, m.store, m.clock, m.ts,
                                             (<<c1>> \o m.calls) \o <<c3>>)
                                 ELSE Result(nsGetReply(bypass, recyc, m.ts, bb2[Len(bb2)]),
                                             NoError, m.store, m.clock, m.ts,
                                             (<<c1>> \o m.calls) \o <<c3>>)
                         ELSE Result(nsGetReply(bypass, recyc, m.ts, bb[Len(bb)]),
                                     NoError, m.store, m.clock, m.ts, <<c1>> \o m.calls)
    ELSE LET wkey == IF recyc THEN buildRecyclableKey(key)
                     ELSE buildVersionedKey(key, nsversion)
             c1 == MGetCall(<<wkey>>, FailErr(fail, 1))
             bb == StorageMGet(st, <<wkey>>)
         IN IF c1.err # NoError
            THEN Result(nil, c1.err, st, clk, nsversion, <<c1>>)
            ELSE Result(nsGetReply(bypass, recyc, nsversion, bb[1]), NoError, st, clk,
                        nsversion, <<c1>>)

\* a wire item that carries the version behind the caller's bytes
nsWireItem_PayloadFirst(recyc, nsversion, item) ==
    IF recyc
    THEN Item(buildRecyclableKey(item.Key),
              Bytes(item.Value.bytes \o marshalInt64(nsversion)), item.TTL)
    ELSE Item(buildVersionedKey(item.Key, nsversion), item.Value, item.TTL)

\* The item CacheNS.Set hands to the storage.
nsWireItem(recyc, nsversion, item) ==
    IF recyc
    THEN Item(buildRecyclableKey(item.Key),
              Bytes(marshalInt64(nsversion) \o item.Value.bytes), item.TTL)
    ELSE Item(buildVersionedKey(item.Key, nsversion), item.Value, item.TTL)

\* a Set that resolves the namespace version on every call
CacheNSSet_AlwaysResolve(st, clk, recyc, nskeys, nsversion, bypass, item, fail) ==
    IF bypass = BypassReadWriting
    THEN Result(nil, NoError, st, clk, nsversion, <<>>)
    ELSE IF nsversion >= 0
    THEN LET c1 == MGetCall(nskeys, FailErr(fail, 1))
             bb == StorageMGet(st, nskeys)
         IN IF c1.err # NoError
            THEN Result(nil, c1.err, st, clk, nsversion, <<c1>>)
            ELSE LET m == mostRecentTimestamp(st, clk, nskeys, bb, FailErr(fail, 2))
                     n == 1 + Len(m.calls)
                     w == nsWireItem(recyc, m.ts, item)
                     cs == SetCall(<<w>>, FailErr(fail, n + 1))
                 IN IF m.err # NoError
                    THEN Result(nil, m.err, m.store, m.clock, nsversion, <<c1>> \o m.calls)
                    ELSE Result(nil, cs.err,
                                IF cs.err = NoError THEN StorageSet(m.store, <<w>>) ELSE m.store,
                                m.clock, m.ts, (<<c1>> \o m.calls) \o <<cs>>)
    ELSE LET w == nsWireItem(recyc, nsversion, item)
             cs == SetCall(<<w>>, FailErr(fail, 1))
         IN Result(nil, cs.err,
                   IF cs.err = NoError THEN StorageSet(st, <<w>>) ELSE st,
                   clk, nsversion, <<cs>>)

(***************************************************************************)
(* CacheNS.Set.                                                            *)
(***************************************************************************)
CacheNSSet(st, clk, recyc, nskeys, nsversion, bypass, item, fail) ==
    IF bypass = BypassReadWriting
    THEN Result(nil, NoError, st, clk, nsversion, <<>>)
    ELSE IF nsversion = 0
    THEN LET c1 == MGetCall(nskeys, FailErr(fail, 1))
             bb == StorageMGet(st, nskeys)
         IN IF c1.err # NoError
            THEN Result(nil, c1.err, st, clk, nsversion, <<c1>>)
            ELSE LET m == mostRecentTimestamp(st, clk, nskeys, bb, FailErr(fail, 2))
                     n == 1 + Len(m.calls)
                     w == nsWireItem(recyc, m.ts, item)
                     cs == SetCall(<<w>>, FailErr(fail, n + 1))
                 IN IF m.err # NoError
                    THEN Result(nil, m.err, m.store, m.clock, nsversion, <<c1>> \o m.calls)
                    ELSE Result(nil, cs.err,
                                IF cs.err = NoError THEN StorageSet(m.store, <<w>>) ELSE m.store,
                                m.clock, m.ts, (<<c1>> \o m.calls) \o <<cs>>)
    ELSE LET w == nsWireItem(recyc, nsversion, item)
             cs == SetCall(<<w>>, FailErr(fail, 1))
         IN Result(nil, cs.err,
                   IF cs.err = NoError THEN StorageSet(st, <<w>>) ELSE st,
                   clk, nsversion, <<cs>>)

(***************************************************************************)
(* The cache facade: Get, GetMulti, Set, SetMulti, Delete, DeleteMulti.    *)
(* A reply of GetMulti is a [][]byte, itself nil or a list of slots.       *)
(***************************************************************************)
nilReply == [isNil |-> TRUE, slots |-> <<>>]

Reply(bb) == [isNil |-> FALSE, slots |-> bb]

FacadeResult(b, bb, err, st, calls) ==
    [b |-> b, bb |-> bb, err |-> err, store |-> st, calls |-> calls]

CacheGet(st, bypass, key, fail) ==
    IF bypass = BypassReading \/ bypass = BypassReadWriting
    THEN FacadeResult(nil, nilReply, NoError, st, <<>>)
    ELSE LET c == MGetCall(<<key>>, FailErr(fail, 1))
             bb == StorageMGet(st, <<key>>)
         IN IF c.err # NoError
            THEN FacadeResult(nil, nilReply, c.err, st, <<c>>)
            ELSE FacadeResult(bb[1], nilReply, NoError, st, <<c>>)

CacheGetMulti(st, bypass, keys, fail) ==
    IF bypass = BypassReading \/ bypass = BypassReadWriting
    THEN FacadeResult(nil, nilReply, NoError, st, <<>>)
    ELSE LET c == MGetCall(keys, FailErr(fail, 1))
             bb == StorageMGet(st, keys)
         IN IF c.err # NoError
            THEN FacadeResult(nil, nilReply, c.err, st, <<c>>)
            ELSE FacadeResult(nil, Reply(bb), NoError, st, <<c>>)

CacheSetMulti(st, bypass, its, fail) ==
    IF bypass = BypassReadWriting
    THEN FacadeResult(nil, nilReply, NoError, st, <<>>)
    ELSE LET c == SetCall(its, FailErr(fail, 1))
         IN FacadeResult(nil, nilReply, c.err,
                         IF c.err = NoError THEN StorageSet(st, its) ELSE st, <<c>>)

\* a Set that is skipped under BypassReading too
CacheSet_SkipOnReading(st, bypass, item, fail) ==
    IF bypass = BypassReading \/ bypass = BypassReadWriting
    THEN FacadeResult(nil, nilReply, NoError, st, <<>>)
    ELSE LET c == SetCall(<<item>>, FailErr(fail, 1))
         IN FacadeResult(nil, nilReply, c.err,
                         IF c.err = NoError THEN StorageSet(st, <<item>>) ELSE st, <<c>>)

CacheSet(st, bypass, item, fail) ==
    IF bypass = BypassReadWriting
    THEN FacadeResult(nil, nilReply, NoError, st, <<>>)
    ELSE LET c == SetCall(<<item>>, FailErr(fail, 1))
         IN FacadeResult(nil, nilReply, c.err,
                         IF c.err = NoError THEN StorageSet(st, <<item>>) ELSE st, <<c>>)

CacheDeleteMulti(st, bypass, keys, fail) ==
    IF bypass = BypassReadWriting
    THEN FacadeResult(nil, nilReply, NoError, st, <<>>)
    ELSE LET c == DeleteCall(keys, FailErr(fail, 1))
         IN FacadeResult(nil, nilReply, c.err,
                         IF c.err = NoError THEN StorageDelete(st, keys) ELSE st, <<c>>)

CacheDelete(st, bypass, key, fail) ==
    IF bypass = BypassReadWriting
    THEN FacadeResult(nil, nilReply, NoError, st, <<>>)
    ELSE LET c == DeleteCall(<<key>>, FailErr(fail, 1))
         IN FacadeResult(nil, nilReply, c.err,
                         IF c.err = NoError THEN StorageDelete(st, <<key>>) ELSE st, <<c>>)

(***************************************************************************)
(* State.                                                                  *)
(***************************************************************************)
VARIABLES
    store,        \* the Storage behind the cache: key -> bytes
    clock,        \* the last reading of now()
    recyclable,   \* Cache.recyclable
    handles,      \* CacheNS values: [nskeys, nsversion], nsversion 0 = unresolved
    lastOp,       \* the call that returned last, with its reply and store calls
    lastSet,      \* per user key: the last value a namespace handle stored for it
    setVia,       \* per user key: the namespace lists it has been Set through
    killed,       \* per user key: lists of setVia with a key deleted, no Set since
    mustMiss,     \* per handle: user keys invalidated before it was constructed
    dirty,        \* per handle: a namespace key of it was deleted after it resolved
    nsteps,       \* calls made so far on the facade and its handles
    items,        \* contention.items: key -> in-flight item (index in heap, 0: none)
    heap,         \* the items allocated so far: pending, b, done (closed or not)
    mutexDead,    \* contention's mutex was left locked by a goroutine that panicked
    g,            \* the goroutines calling the key-locked cache
    ncalls,       \* calls made so far on the key-locked cache
    recomputers,  \* per key: immediate misses handed out since a Set of it last ran
    designated,   \* <<goroutine, key>>: got the immediate miss, no Set of key since
    owing,        \* <<goroutine, key>>: got the immediate miss, has neither
                  \* completed a Set of key nor given the recompute up
    lastRet,      \* the call on the key-locked cache that returned last
    cancelled,    \* keys a waiter on which has returned released by its context
    tiers,        \* MultiStorage.storages: one map from key to bytes per tier
    lastMulti,    \* the call on the MultiStorage that returned last
    arrays,       \* the backing arrays of the wrappers' hook slices
    wrappers,     \* the storage wrappers built, in the order they were built
    nhooks,       \* hooks registered so far
    lastWrapGet,  \* the MGet on a wrapper that returned last
    resolving,    \* the goroutines resolving a namespace version, step by step
    hist,         \* what was ever stored under each namespace key
    lastNSWrite,  \* the namespace keys written by the last Set of a resolution
    nres,         \* resolutions started so far
    gz,           \* a cache with gzip compression over one key of a store
    opt,          \* a cache with gzip compression and key-lock over one key
    pipe,         \* storage wrappers with write hooks, and the last Set on one
    sh            \* threads calling namespace handles step by step

nsVars == <<clock, recyclable, handles, lastOp, lastSet, setVia, killed,
            mustMiss, dirty, nsteps>>

klVars == <<items, heap, mutexDead, g, ncalls, recomputers, designated, owing,
            lastRet, cancelled>>

msVars == <<tiers, lastMulti>>

swVars == <<arrays, wrappers, nhooks, lastWrapGet>>

rsVars == <<resolving, hist, lastNSWrite, nres>>

gzVars == <<gz>>

opVars == <<opt>>

ppVars == <<pipe>>

shVars == <<sh>>

vars == <<store, nsVars, klVars, msVars, swVars, rsVars, gzVars, opVars, ppVars, shVars>>

NoOp ==
    [fn |-> "none", h |-> 0, keys |-> <<>>, items |-> <<>>, bypass |-> NoBypass,
     b |-> nil, bb |-> nilReply, err |-> NoError, calls |-> <<>>, fail |-> 0,
     unresolved |-> FALSE]

NoSet == [set |-> FALSE, nskeys |-> <<>>, ver |-> 0, val |-> nil, clean |-> FALSE,
          delSince |-> {}]

UserItems == {Item(k, Bytes(p), Minute) : k \in UserKeys, p \in Payloads}

PlainItems == {Item(k, Bytes(p), Minute) : k \in PlainKeys, p \in Payloads}

KeyLists == {<<"key1">>, <<"key1", "key2">>, <<"key2", "key2">>}

ItemLists == {<<Item("key1", Bytes(<<7>>), Minute)>>,
              <<Item("key1", Bytes(<<>>), Minute), Item("key2", Bytes(<<8>>), Minute)>>}

Procs == 1..MaxProcs

KLKeys == {"key1", "key2"}

KLKeyLists == {<<"key1">>, <<"key1", "key2">>}

KLItems == {Item("key1", Bytes(p), Minute) : p \in Payloads}

\* &item{done: make(chan struct{})}; key, closedWith and written are history
NewItem(key) ==
    [pending |-> 0, b |-> nil, done |-> FALSE, key |-> key, closedWith |-> nil,
     written |-> FALSE]

\* what became of one slot of a reply: how it was answered, by which item
NoSlot == [how |-> "", src |-> 0, early |-> FALSE, seen |-> FALSE]

HitSlot == [how |-> "hit", src |-> 0, early |-> FALSE, seen |-> FALSE]

IdleG ==
    [pc |-> "idle", fn |-> "none", keys |-> <<>>, i |-> 0, mget |-> <<>>, bb |-> <<>>,
     slots |-> <<>>, ptr |-> 0, item |-> Item("", nil, 0), err |-> NoError,
     panic |-> "", asDesignated |-> FALSE]

KLIdle ==
    /\ items = [k \in KLKeys |-> 0]
    /\ heap = <<>>
    /\ mutexDead = FALSE
    /\ g = [p \in Procs |-> IdleG]
    /\ ncalls = 0
    /\ recomputers = [k \in KLKeys |-> 0]
    /\ designated = {}
    /\ owing = {}
    /\ lastRet = IdleG
    /\ cancelled = {}

NSIdle ==
    /\ store = <<>>
    /\ clock = 0
    /\ recyclable \in BOOLEAN
    /\ handles = [h \in Handles |->
                    [nskeys |-> IF h = 1 THEN <<"nskey1", "nskey2">> ELSE <<"nskey2">>,
                     nsversion |-> 0]]
    /\ lastOp = NoOp
    /\ lastSet = [k \in UserKeys |-> NoSet]
    /\ setVia = [k \in UserKeys |-> {}]
    /\ killed = [k \in UserKeys |-> {}]
    /\ mustMiss = [h \in Handles |-> {}]
    /\ dirty = [h \in Handles |-> FALSE]
    /\ nsteps = 0

NoMulti ==
    [fn |-> "none", keys |-> <<>>, items |-> <<>>, reply |-> nilReply, err |-> NoError,
     calls |-> <<>>, failAt |-> 0]

MultiIdle ==
    /\ tiers = <<>>
    /\ lastMulti = NoMulti

NoWrapGet == [fn |-> "none", w |-> 0, keys |-> <<>>, bb |-> <<>>, baseCalls |-> 0]

\* no wrapper built yet
WrapIdle ==
    /\ arrays = <<>>
    /\ wrappers = <<>>
    /\ nhooks = 0
    /\ lastWrapGet = NoWrapGet

\* a goroutine that is not resolving a namespace version
IdleRes == [pc |-> "idle", nskeys |-> <<>>, bb |-> <<>>, items |-> <<>>, ts |-> 0,
            rebirth |-> {}]

NoHist ==
    [highest |-> [k \in NSKeys |-> 0], invalidated |-> {},
     dataVer |-> [k \in NSKeys |-> 0], dataAtInval |-> [k \in NSKeys |-> 0]]

\* no handle is resolving
ResIdle ==
    /\ resolving = [p \in 1..MaxResolvers |-> IdleRes]
    /\ hist = NoHist
    /\ lastNSWrite = {}
    /\ nres = 0

NoGzCall == [fn |-> "none", arg |-> nil, b |-> nil, err |-> NoError]

\* no cache with gzip compression is in use
GzIdle == gz = [level |-> 0, stored |-> nil, src |-> "none", wrote |-> nil, last |-> NoGzCall]

NoEntry == [exists |-> FALSE, done |-> FALSE, b |-> nil, pending |-> 0]

NoOptCall == [fn |-> "none", who |-> 0, b |-> nil, err |-> NoError, woken |-> FALSE,
              afterSet |-> FALSE]

IdleOpt == [pc |-> "idle", at |-> 0, owes |-> FALSE]

NoOpt ==
    [chain |-> <<>>, stored |-> nil, entry |-> NoEntry,
     p |-> [q \in 1..MaxOptProcs |-> IdleOpt], wrote |-> nil, last |-> NoOptCall,
     ncalls |-> 0]

\* no cache with both options is in use
OptIdle == opt = NoOpt

NoPipeCall ==
    [fn |-> "none", w |-> 0, given |-> <<>>, held |-> <<>>, sent |-> <<>>,
     err |-> NoError, trace |-> <<>>]

NoPipe == [arrays |-> <<>>, wrappers |-> <<>>, nhooks |-> 0, last |-> NoPipeCall]

\* no storage wrapper with write hooks is in use
PipeIdle == pipe = NoPipe

IdleThread ==
    [pc |-> "idle", fn |-> "none", h |-> 0, bb |-> <<>>, ts |-> 0, items |-> <<>>,
     unres |-> FALSE]

NoThreadCall == [fn |-> "none", h |-> 0, b |-> nil]

NoThreads ==
    [hOf |-> <<>>, N |-> <<>>, nsversion |-> <<>>, t |-> <<>>, nops |-> 0, ndel |-> 0,
     resAt |-> <<>>, mgetAt |-> <<>>, ran |-> {}, last |-> NoThreadCall]

\* no threads are calling namespace handles
ThreadsIdle == sh = NoThreads

Init ==
    /\ NSIdle /\ KLIdle /\ MultiIdle /\ WrapIdle /\ ResIdle /\ GzIdle /\ OptIdle /\ PipeIdle
    /\ ThreadsIdle

\* Ghost bookkeeping of a Delete that reached the store.
AfterDelete(keys) ==
    LET gone == Range(keys) \cap NSKeys
    IN /\ lastSet' = [k \in UserKeys |->
                        IF lastSet[k].set
                        THEN [lastSet[k] EXCEPT !.delSince = @ \cup gone]
                        ELSE lastSet[k]]
       /\ killed' = [k \in UserKeys |->
                        killed[k] \cup {N \in setVia[k] : Range(N) \cap gone # {}}]
       /\ dirty' = [h \in Handles |->
                        dirty[h] \/ (handles[h].nsversion # 0
                                     /\ Range(handles[h].nskeys) \cap gone # {})]
       /\ UNCHANGED <<setVia, mustMiss>>

\* Cache.Namespace(keys...): a new, unresolved handle takes the place of h.
Namespace(h, nskeys) ==
    /\ nsteps < MaxSteps
    /\ handles' = [handles EXCEPT ![h] = [nskeys |-> nskeys, nsversion |-> 0]]
    /\ mustMiss' = [mustMiss EXCEPT ![h] = {k \in UserKeys : nskeys \in killed[k]}]
    /\ dirty' = [dirty EXCEPT ![h] = FALSE]
    /\ lastOp' = [NoOp EXCEPT !.fn = "Namespace", !.h = h, !.keys = nskeys]
    /\ UNCHANGED <<store, clock, recyclable, lastSet, setVia, killed>>
    /\ nsteps' = nsteps + 1
    /\ UNCHANGED <<klVars, msVars, swVars, rsVars, gzVars, opVars, ppVars, shVars>>

NSGet(h, key, bypass, fail) ==
    /\ nsteps < MaxSteps
    /\ \E r \in {CacheNSGet(store, clock, recyclable, handles[h].nskeys,
                           handles[h].nsversion, bypass, key, fail)} :
          /\ r.clock <= MaxClock
          /\ fail <= Len(r.calls)
          /\ store' = r.store
          /\ clock' = r.clock
          /\ handles' = [handles EXCEPT ![h].nsversion = r.nsversion]
          /\ lastOp' = [NoOp EXCEPT !.fn = "CacheNS.Get", !.h = h, !.keys = <<key>>,
                           !.bypass = bypass, !.b = r.b, !.err = r.err,
                           !.calls = r.calls, !.fail = fail,
                           !.unresolved = (handles[h].nsversion = 0)]
          /\ UNCHANGED <<recyclable, lastSet, setVia, killed, mustMiss, dirty>>
          /\ nsteps' = nsteps + 1
          /\ UNCHANGED <<klVars, msVars, swVars, rsVars, gzVars, opVars, ppVars, shVars>>

NSSet(h, item, bypass, fail) ==
    /\ nsteps < MaxSteps
    /\ \E r \in {CacheNSSet(store, clock, recyclable, handles[h].nskeys,
                           handles[h].nsversion, bypass, item, fail)} :
       LET stored == r.calls # <<>> /\ r.err = NoError
       IN /\ r.clock <= MaxClock
          /\ fail <= Len(r.calls)
          /\ store' = r.store
          /\ clock' = r.clock
          /\ handles' = [handles EXCEPT ![h].nsversion = r.nsversion]
          /\ lastOp' = [NoOp EXCEPT !.fn = "CacheNS.Set", !.h = h, !.items = <<item>>,
                           !.bypass = bypass, !.err = r.err, !.calls = r.calls,
                           !.fail = fail, !.unresolved = (handles[h].nsversion = 0)]
          /\ lastSet' = IF stored
                        THEN [lastSet EXCEPT ![item.Key] =
                                [set |-> TRUE, nskeys |-> handles[h].nskeys,
                                 ver |-> r.nsversion, val |-> item.Value,
                                 clean |-> ~dirty[h], delSince |-> {}]]
                        ELSE lastSet
          /\ setVia' = IF stored
                       THEN [setVia EXCEPT ![item.Key] = @ \cup {handles[h].nskeys}]
                       ELSE setVia
          /\ killed' = IF stored THEN [killed EXCEPT ![item.Key] = {}] ELSE killed
          /\ mustMiss' = IF stored
                         THEN [hh \in Handles |-> mustMiss[hh] \ {item.Key}]
                         ELSE mustMiss
          /\ UNCHANGED <<recyclable, dirty>>
          /\ nsteps' = nsteps + 1
          /\ UNCHANGED <<klVars, msVars, swVars, rsVars, gzVars, opVars, ppVars, shVars>>

Get(key, bypass, fail) ==
    /\ nsteps < MaxSteps
    /\ \E r \in {CacheGet(store, bypass, key, fail)} :
          /\ fail <= Len(r.calls)
          /\ store' = r.store
          /\ lastOp' = [NoOp EXCEPT !.fn = "Cache.Get", !.keys = <<key>>, !.bypass = bypass,
                           !.b = r.b, !.err = r.err, !.calls = r.calls, !.fail = fail]
          /\ UNCHANGED <<clock, recyclable, handles, lastSet, setVia, killed, mustMiss, dirty>>
          /\ nsteps' = nsteps + 1
          /\ UNCHANGED <<klVars, msVars, swVars, rsVars, gzVars, opVars, ppVars, shVars>>

GetMulti(keys, bypass, fail) ==
    /\ nsteps < MaxSteps
    /\ \E r \in {CacheGetMulti(store, bypass, keys, fail)} :
          /\ fail <= Len(r.calls)
          /\ store' = r.store
          /\ lastOp' = [NoOp EXCEPT !.fn = "Cache.GetMulti", !.keys = keys,
                           !.bypass = bypass, !.bb = r.bb, !.err = r.err,
                           !.calls = r.calls, !.fail = fail]
          /\ UNCHANGED <<clock, recyclable, handles, lastSet, setVia, killed, mustMiss, dirty>>
          /\ nsteps' = nsteps + 1
          /\ UNCHANGED <<klVars, msVars, swVars, rsVars, gzVars, opVars, ppVars, shVars>>

Set(item, bypass, fail) ==
    /\ nsteps < MaxSteps
    /\ \E r \in {CacheSet(store, bypass, item, fail)} :
          /\ fail <= Len(r.calls)
          /\ store' = r.store
          /\ lastOp' = [NoOp EXCEPT !.fn = "Cache.Set", !.items = <<item>>,
                           !.bypass = bypass, !.err = r.err, !.calls = r.calls,
                           !.fail = fail]
          /\ UNCHANGED <<clock, recyclable, handles, lastSet, setVia, killed, mustMiss, dirty>>
          /\ nsteps' = nsteps + 1
          /\ UNCHANGED <<klVars, msVars, swVars, rsVars, gzVars, opVars, ppVars, shVars>>

SetMulti(its, bypass, fail) ==
    /\ nsteps < MaxSteps
    /\ \E r \in {CacheSetMulti(store, bypass, its, fail)} :
          /\ fail <= Len(r.calls)
          /\ store' = r.store
          /\ lastOp' = [NoOp EXCEPT !.fn = "Cache.SetMulti", !.items = its,
                           !.bypass = bypass, !.err = r.err, !.calls = r.calls,
                           !.fail = fail]
          /\ UNCHANGED <<clock, recyclable, handles, lastSet, setVia, killed, mustMiss, dirty>>
          /\ nsteps' = nsteps + 1
          /\ UNCHANGED <<klVars, msVars, swVars, rsVars, gzVars, opVars, ppVars, shVars>>

Delete(key, bypass, fail) ==
    /\ nsteps < MaxSteps
    /\ \E r \in {CacheDelete(store, bypass, key, fail)} :
          /\ fail <= Len(r.calls)
          /\ store' = r.store
          /\ lastOp' = [NoOp EXCEPT !.fn = "Cache.Delete", !.keys = <<key>>,
                           !.bypass = bypass, !.err = r.err, !.calls = r.calls,
                           !.fail = fail]
          /\ IF r.calls # <<>> /\ r.err = NoError
             THEN AfterDelete(<<key>>)
             ELSE UNCHANGED <<lastSet, setVia, killed, mustMiss, dirty>>
          /\ UNCHANGED <<clock, recyclable, handles>>
          /\ nsteps' = nsteps + 1
          /\ UNCHANGED <<klVars, msVars, swVars, rsVars, gzVars, opVars, ppVars, shVars>>

DeleteMulti(keys, bypass, fail) ==
    /\ nsteps < MaxSteps
    /\ \E r \in {CacheDeleteMulti(store, bypass, keys, fail)} :
          /\ fail <= Len(r.calls)
          /\ store' = r.store
          /\ lastOp' = [NoOp EXCEPT !.fn = "Cache.DeleteMulti", !.keys = keys,
                           !.bypass = bypass, !.err = r.err, !.calls = r.calls,
                           !.fail = fail]
          /\ IF r.calls # <<>> /\ r.err = NoError
             THEN AfterDelete(keys)
             ELSE UNCHANGED <<lastSet, setVia, killed, mustMiss, dirty>>
          /\ UNCHANGED <<clock, recyclable, handles>>
          /\ nsteps' = nsteps + 1
          /\ UNCHANGED <<klVars, msVars, swVars, rsVars, gzVars, opVars, ppVars, shVars>>

Fails == 0..3

Next ==
    \/ \E h \in Handles, nskeys \in NSLists : Namespace(h, nskeys)
    \/ \E h \in Handles, key \in UserKeys, bypass \in Bypasses, fail \in Fails :
          NSGet(h, key, bypass, fail)
    \/ \E h \in Handles, item \in UserItems, bypass \in Bypasses, fail \in Fails :
          NSSet(h, item, bypass, fail)
    \/ \E key \in NSKeys, fail \in Fails : Delete(key, NoBypass, fail)

Spec == Init /\ [][Next]_vars

NextFacade ==
    \/ \E key \in PlainKeys, bypass \in Bypasses, fail \in Fails : Get(key, bypass, fail)
    \/ \E keys \in KeyLists, bypass \in Bypasses, fail \in Fails :
          GetMulti(keys, bypass, fail)
    \/ \E item \in PlainItems, bypass \in Bypasses, fail \in Fails :
          Set(item, bypass, fail)
    \/ \E its \in ItemLists, bypass \in Bypasses, fail \in Fails :
          SetMulti(its, bypass, fail)
    \/ \E key \in PlainKeys, bypass \in Bypasses, fail \in Fails :
          Delete(key, bypass, fail)
    \/ \E keys \in KeyLists, bypass \in Bypasses, fail \in Fails :
          DeleteMulti(keys, bypass, fail)

SpecFacade == Init /\ [][NextFacade]_vars

(***************************************************************************)
(* Namespace versioning.                                                   *)
(***************************************************************************)
NSGetDone == lastOp.fn = "CacheNS.Get" /\ lastOp.bypass = NoBypass /\ lastOp.fail = 0

GotKey == lastOp.keys[1]

GotHandle == handles[lastOp.h]

\* C1: once a user key was Set through a handle over N and a namespace key of
\* N was deleted afterwards, a Get of it on a handle over N constructed after
\* the delete returns (nil, nil).
GroupInvalidation ==
    (NSGetDone /\ GotKey \in mustMiss[lastOp.h])
        => (lastOp.b = nil /\ lastOp.err = NoError)

\* the stale payload is still in the store when the fresh handle misses
GroupInvalidationWitness ==
    /\ NSGetDone /\ GotKey \in mustMiss[lastOp.h]
    /\ recyclable
    /\ buildRecyclableKey(GotKey) \in DOMAIN store
    /\ lastSet[GotKey].set /\ lastSet[GotKey].nskeys = GotHandle.nskeys

\* C2: a Get on a handle over the namespace keys of the handle that Set the
\* key last, resolved to the version of that Set and with no namespace key
\* deleted in between, returns exactly the value that was Set.
VersioningRoundTrip ==
    (NSGetDone /\ lastSet[GotKey].set
       /\ lastSet[GotKey].nskeys = GotHandle.nskeys
       /\ lastSet[GotKey].ver = GotHandle.nsversion
       /\ lastSet[GotKey].delSince = {})
        => (lastOp.b = lastSet[GotKey].val /\ lastOp.err = NoError)

\* the reading handle is one that resolved in this very Get
VersioningRoundTripWitness ==
    /\ NSGetDone /\ lastSet[GotKey].set
    /\ lastSet[GotKey].nskeys = GotHandle.nskeys
    /\ lastSet[GotKey].ver = GotHandle.nsversion
    /\ lastSet[GotKey].delSince = {}
    /\ lastOp.unresolved
    /\ lastSet[GotKey].val = Bytes(<<7>>)

\* C3: a value Set under a handle over [n2] is still a hit for a fresh handle
\* over [n2] after a namespace key outside [n2] has been deleted.
ScopedInvalidation ==
    (NSGetDone /\ lastOp.unresolved /\ lastSet[GotKey].set
       /\ lastSet[GotKey].nskeys = GotHandle.nskeys
       /\ lastSet[GotKey].clean
       /\ lastSet[GotKey].delSince # {}
       /\ lastSet[GotKey].delSince \cap Range(GotHandle.nskeys) = {})
        => (lastOp.b = lastSet[GotKey].val /\ ~lastOp.b.isNil /\ lastOp.err = NoError)

ScopedInvalidationWitness ==
    /\ NSGetDone /\ lastOp.unresolved /\ lastSet[GotKey].set
    /\ lastSet[GotKey].nskeys = <<"nskey2">>
    /\ GotHandle.nskeys = <<"nskey2">>
    /\ lastSet[GotKey].clean
    /\ lastSet[GotKey].delSince = {"nskey1"}
    /\ ~lastOp.b.isNil

(***************************************************************************)
(* Bypass states.                                                          *)
(***************************************************************************)
Bypassing == lastOp.bypass = BypassReading \/ lastOp.bypass = BypassReadWriting

FacadeRead == lastOp.fn \in {"Cache.Get", "Cache.GetMulti"}

FacadeSets == lastOp.fn \in {"Cache.Set", "Cache.SetMulti"}

FacadeDeletes == lastOp.fn \in {"Cache.Delete", "Cache.DeleteMulti"}

\* C9: under BypassReading or BypassReadWriting Get and GetMulti return
\* (nil, nil) without a store call; under BypassReadWriting the four writing
\* operations return nil without a store call; under BypassReading they make
\* the one store call they make without a bypass state, with the caller's batch.
FlowModeMatrix ==
    /\ (FacadeRead /\ Bypassing)
          => (lastOp.calls = <<>> /\ lastOp.b = nil /\ lastOp.bb = nilReply
              /\ lastOp.err = NoError)
    /\ ((FacadeSets \/ FacadeDeletes) /\ lastOp.bypass = BypassReadWriting)
          => (lastOp.calls = <<>> /\ lastOp.err = NoError)
    /\ (FacadeSets /\ lastOp.bypass \in {NoBypass, BypassReading})
          => (lastOp.calls = <<SetCall(lastOp.items, lastOp.err)>>
              /\ (lastOp.err = NoError =>
                    \A i \in 1..Len(lastOp.items) :
                        /\ lastOp.items[i].Key \in DOMAIN store
                        /\ store[lastOp.items[i].Key] = lastOp.items[i].Value))
    /\ (FacadeDeletes /\ lastOp.bypass \in {NoBypass, BypassReading})
          => (lastOp.calls = <<DeleteCall(lastOp.keys, lastOp.err)>>
              /\ (lastOp.err = NoError => Range(lastOp.keys) \cap DOMAIN store = {}))

FlowModeMatrixWitness ==
    /\ lastOp.fn = "Cache.Set" /\ lastOp.bypass = BypassReading
    /\ lastOp.err = NoError
    /\ lastOp.items[1].Key \in DOMAIN store

NextNil(bb, j) ==
    IF \E n \in j..Len(bb) : bb[n].isNil
    THEN CHOOSE n \in j..Len(bb) :
            bb[n].isNil /\ \A m \in j..(n - 1) : ~bb[m].isNil
    ELSE 0

\* storageWrapper.MGet's loop: hits go through AfterMGet untouched
NextSlot(gp, j) ==
    LET n == NextNil(gp.mget, j)
    IN IF n = 0
       THEN [gp EXCEPT !.pc = "idle", !.i = 0, !.ptr = 0]
       ELSE [gp EXCEPT !.pc = "lock", !.i = n, !.ptr = 0]

\* a waiter that reports its context's error
waiterReply_CtxErr(it, slot) ==
    [b |-> it.b, err |-> IF slot.how = "ctx" THEN "context deadline exceeded" ELSE NoError]

\* return i.b, nil
waiterReply(it, slot) == [b |-> it.b, err |-> NoError]

Key(p) == g[p].keys[g[p].i]

\* goroutines are numbered in the order of their first call
Spawned(p) == IF p = 1 THEN TRUE ELSE g[p - 1].fn # "none"

\* the keys of a reply whose waiter was released by its context
ReleasedByCtx(gp) ==
    {gp.keys[j] : j \in {n \in 1..Len(gp.slots) : gp.slots[n].how = "ctx"}}

\* Goroutine p goes on as gp; when gp is idle its call is over and gp is the
\* call that returned last.
Goes(p, gp) ==
    IF gp.pc = "idle"
    THEN /\ g' = [g EXCEPT ![p] = [IdleG EXCEPT !.fn = "over"]]
         /\ lastRet' = gp
         /\ cancelled' = cancelled \cup ReleasedByCtx(gp)
    ELSE /\ g' = [g EXCEPT ![p] = gp]
         /\ UNCHANGED <<lastRet, cancelled>>

\* Cache.Get / Cache.GetMulti: storage.MGet, then AfterMGet slot by slot.
KLGetMulti(p, keys, fail) ==
    /\ ncalls < MaxCalls
    /\ g[p].pc = "idle"
    /\ Spawned(p)
    /\ LET bb == StorageMGet(store, keys)
           g0 == [IdleG EXCEPT !.fn = "GetMulti", !.keys = keys]
       IN Goes(p, IF fail
                  THEN [g0 EXCEPT !.err = ErrStore]
                  ELSE NextSlot([g0 EXCEPT !.mget = bb, !.bb = bb,
                                    !.slots = [j \in 1..Len(keys) |->
                                        IF bb[j].isNil THEN NoSlot ELSE HitSlot]], 1))
    /\ ncalls' = ncalls + 1
    /\ UNCHANGED <<store, nsVars, msVars, swVars, rsVars, gzVars, opVars, ppVars, shVars, items, heap, mutexDead, recomputers,
                   designated, owing>>

\* AfterMGet from c.Lock() to c.Unlock(): install an item and return the miss,
\* or pick up the item that is there.
AfterMGetLock(p) ==
    /\ g[p].pc = "lock"
    /\ ~mutexDead
    /\ LET k == Key(p)
           i == g[p].i
       IN IF items[k] = 0
          THEN /\ Len(heap) < MaxItems
               /\ heap' = Append(heap, NewItem(k))
               /\ items' = [items EXCEPT ![k] = Len(heap) + 1]
               /\ Goes(p, NextSlot([g[p] EXCEPT !.bb[i] = nil, !.slots[i].how = "miss",
                                        !.slots[i].src = Len(heap) + 1], i + 1))
               /\ recomputers' = [recomputers EXCEPT ![k] = @ + 1]
               /\ designated' = designated \cup {<<p, k>>}
               /\ owing' = owing \cup {<<p, k>>}
          ELSE /\ Goes(p, [g[p] EXCEPT !.pc = "incr", !.ptr = items[k]])
               /\ UNCHANGED <<heap, items, recomputers, designated, owing>>
    /\ UNCHANGED <<store, nsVars, msVars, swVars, rsVars, gzVars, opVars, ppVars, shVars, mutexDead, ncalls>>

\* i.incrPending()
IncrPending(p) ==
    /\ g[p].pc = "incr"
    /\ heap' = [heap EXCEPT ![g[p].ptr].pending = @ + 1]
    /\ g' = [g EXCEPT ![p].pc = "select"]
    /\ UNCHANGED <<store, nsVars, msVars, swVars, rsVars, gzVars, opVars, ppVars, shVars, items, mutexDead, ncalls, recomputers, designated,
                   owing, lastRet, cancelled>>

\* case <-i.done, then i.decrPending()
SelectDone(p) ==
    /\ g[p].pc = "select"
    /\ heap[g[p].ptr].done
    /\ heap' = [heap EXCEPT ![g[p].ptr].pending = @ - 1]
    /\ g' = [g EXCEPT ![p].pc = "tot", ![p].slots[g[p].i].how = "done",
                      ![p].slots[g[p].i].src = g[p].ptr]
    /\ UNCHANGED <<store, nsVars, msVars, swVars, rsVars, gzVars, opVars, ppVars, shVars, items, mutexDead, ncalls, recomputers, designated,
                   owing, lastRet, cancelled>>

\* case <-ctx.Done(), then i.decrPending().  The step is the caller's context
\* being cancelled or reaching its deadline while the goroutine waits: a
\* context without a deadline is one for which it is never taken.
SelectCtx(p) ==
    /\ g[p].pc = "select"
    /\ heap' = [heap EXCEPT ![g[p].ptr].pending = @ - 1]
    /\ g' = [g EXCEPT ![p].pc = "tot", ![p].slots[g[p].i].how = "ctx",
                      ![p].slots[g[p].i].src = g[p].ptr,
                      ![p].slots[g[p].i].early = ~heap[g[p].ptr].done]
    /\ UNCHANGED <<store, nsVars, msVars, swVars, rsVars, gzVars, opVars, ppVars, shVars, items, mutexDead, ncalls, recomputers, designated,
                   owing, lastRet, cancelled>>

\* if i.totPending() == 0
TotPending(p) ==
    /\ g[p].pc = "tot"
    /\ g' = [g EXCEPT ![p].pc = IF heap[g[p].ptr].pending = 0 THEN "delete" ELSE "read"]
    /\ UNCHANGED <<store, nsVars, msVars, swVars, rsVars, gzVars, opVars, ppVars, shVars, items, heap, mutexDead, ncalls, recomputers,
                   designated, owing, lastRet, cancelled>>

\* c.delete(key) of AfterMGet
WaiterDelete(p) ==
    /\ g[p].pc = "delete"
    /\ ~mutexDead
    /\ items' = [items EXCEPT ![Key(p)] = 0]
    /\ g' = [g EXCEPT ![p].pc = "read"]
    /\ UNCHANGED <<store, nsVars, msVars, swVars, rsVars, gzVars, opVars, ppVars, shVars, heap, mutexDead, ncalls, recomputers, designated,
                   owing, lastRet, cancelled>>

\* return i.b, nil: the slot is answered, the loop goes on
WaiterReturn(p) ==
    /\ g[p].pc = "read"
    /\ LET i == g[p].i
           r == waiterReply(heap[g[p].ptr], g[p].slots[i])
           gp == [g[p] EXCEPT !.slots[i].seen = heap[g[p].ptr].written]
       IN Goes(p, IF r.err # NoError
                  THEN [gp EXCEPT !.pc = "idle", !.err = r.err, !.i = 0, !.ptr = 0]
                  ELSE NextSlot([gp EXCEPT !.bb[i] = r.b], i + 1))
    /\ UNCHANGED <<store, nsVars, msVars, swVars, rsVars, gzVars, opVars, ppVars, shVars, items, heap, mutexDead, ncalls, recomputers,
                   designated, owing>>

\* a call of Cache.Set that is over, with what it gave
SetOver(gp, err, panic) ==
    [gp EXCEPT !.pc = "idle", !.err = err, !.panic = panic, !.ptr = 0]

\* Cache.Set: storage.Set first; AfterSet runs only when the store took the item.
KLSet(p, item, fail) ==
    /\ ncalls < MaxCalls
    /\ g[p].pc = "idle"
    /\ Spawned(p)
    /\ LET g0 == [IdleG EXCEPT !.fn = "Set", !.item = item, !.pc = "setLock",
                               !.asDesignated = (<<p, item.Key>> \in designated)]
       IN IF fail
          THEN /\ Goes(p, SetOver(g0, ErrStore, ""))
               /\ store' = store
          ELSE /\ Goes(p, g0)
               /\ store' = StorageSet(store, <<item>>)
    /\ recomputers' = [recomputers EXCEPT ![item.Key] = 0]
    /\ designated' = {d \in designated : d[2] # item.Key}
    /\ ncalls' = ncalls + 1
    /\ UNCHANGED <<nsVars, msVars, swVars, rsVars, gzVars, opVars, ppVars, shVars, items, heap, mutexDead, owing>>

\* AfterSet from c.Lock() to c.Unlock().  Closing a closed channel panics with
\* the mutex held; without an item i is nil and i.totPending() panics.
AfterSetLock(p) ==
    /\ g[p].pc = "setLock"
    /\ ~mutexDead
    /\ LET k == g[p].item.Key
           id == items[k]
       IN IF id = 0
          THEN /\ Goes(p, SetOver(g[p], NoError, "nil pointer dereference"))
               /\ UNCHANGED <<heap, mutexDead>>
          ELSE IF heap[id].done
          THEN /\ heap' = [heap EXCEPT ![id].b = g[p].item.Value, ![id].written = TRUE]
               /\ mutexDead' = TRUE
               /\ Goes(p, SetOver(g[p], NoError, "close of closed channel"))
          ELSE /\ heap' = [heap EXCEPT ![id].b = g[p].item.Value, ![id].written = TRUE,
                                       ![id].done = TRUE,
                                       ![id].closedWith = g[p].item.Value]
               /\ Goes(p, [g[p] EXCEPT !.pc = "setTot", !.ptr = id])
               /\ UNCHANGED mutexDead
    /\ recomputers' = [recomputers EXCEPT ![g[p].item.Key] = 0]
    /\ UNCHANGED <<store, nsVars, msVars, swVars, rsVars, gzVars, opVars, ppVars, shVars, items, ncalls, designated, owing>>

\* if i.totPending() == 0, else return nil
AfterSetTot(p) ==
    /\ g[p].pc = "setTot"
    /\ IF heap[g[p].ptr].pending = 0
       THEN /\ Goes(p, [g[p] EXCEPT !.pc = "setDelete"])
            /\ UNCHANGED owing
       ELSE /\ Goes(p, SetOver(g[p], NoError, ""))
            /\ owing' = owing \ {<<p, g[p].item.Key>>}
    /\ recomputers' = [recomputers EXCEPT ![g[p].item.Key] = 0]
    /\ UNCHANGED <<store, nsVars, msVars, swVars, rsVars, gzVars, opVars, ppVars, shVars, items, heap, mutexDead, ncalls, designated>>

\* c.delete(item.Key) of AfterSet, and return nil
AfterSetDelete(p) ==
    /\ g[p].pc = "setDelete"
    /\ ~mutexDead
    /\ items' = [items EXCEPT ![g[p].item.Key] = 0]
    /\ Goes(p, SetOver(g[p], NoError, ""))
    /\ owing' = owing \ {<<p, g[p].item.Key>>}
    /\ recomputers' = [recomputers EXCEPT ![g[p].item.Key] = 0]
    /\ UNCHANGED <<store, nsVars, msVars, swVars, rsVars, gzVars, opVars, ppVars, shVars, heap, mutexDead, ncalls, designated>>

\* Cache.Delete: the wrapper has no hook on Delete.
KLDelete(key) ==
    /\ ncalls < MaxCalls
    /\ key \in DOMAIN store
    /\ store' = CacheDelete(store, NoBypass, key, 0).store
    /\ ncalls' = ncalls + 1
    /\ UNCHANGED <<nsVars, msVars, swVars, rsVars, gzVars, opVars, ppVars, shVars, items, heap, mutexDead, g, recomputers,
                   designated, owing, lastRet, cancelled>>

\* The caller that got the miss returns without a Set (its recompute failed).
Abandon(p, k) ==
    /\ g[p].pc = "idle"
    /\ <<p, k>> \in owing
    /\ owing' = owing \ {<<p, k>>}
    /\ designated' = designated \ {<<p, k>>}
    /\ UNCHANGED <<store, nsVars, msVars, swVars, rsVars, gzVars, opVars, ppVars, shVars, items, heap, mutexDead, g, ncalls, recomputers,
                   lastRet, cancelled>>

InitKL ==
    /\ store = [k \in {"key2"} |-> Bytes(<<8>>)]
    /\ clock = 0
    /\ recyclable = TRUE
    /\ handles = [h \in Handles |-> [nskeys |-> <<"nskey2">>, nsversion |-> 0]]
    /\ lastOp = NoOp
    /\ lastSet = [k \in UserKeys |-> NoSet]
    /\ setVia = [k \in UserKeys |-> {}]
    /\ killed = [k \in UserKeys |-> {}]
    /\ mustMiss = [h \in Handles |-> {}]
    /\ dirty = [h \in Handles |-> FALSE]
    /\ nsteps = 0
    /\ KLIdle
    /\ MultiIdle
    /\ WrapIdle
    /\ ResIdle
    /\ GzIdle
    /\ OptIdle
    /\ PipeIdle
    /\ ThreadsIdle

NextKL ==
    \/ \E p \in Procs, keys \in KLKeyLists, fail \in BOOLEAN :
            KLGetMulti(p, keys, fail)
    \/ \E p \in Procs : AfterMGetLock(p)
    \/ \E p \in Procs : IncrPending(p)
    \/ \E p \in Procs : SelectDone(p)
    \/ \E p \in Procs : SelectCtx(p)
    \/ \E p \in Procs : TotPending(p)
    \/ \E p \in Procs : WaiterDelete(p)
    \/ \E p \in Procs : WaiterReturn(p)
    \/ \E p \in Procs, item \in KLItems, fail \in BOOLEAN : KLSet(p, item, fail)
    \/ \E p \in Procs : AfterSetLock(p)
    \/ \E p \in Procs : AfterSetTot(p)
    \/ \E p \in Procs : AfterSetDelete(p)
    \/ KLDelete("key1")
    \/ \E p \in Procs, k \in KLKeys : Abandon(p, k)

SpecKL == InitKL /\ [][NextKL]_vars

(***************************************************************************)
(* Key-lock claims, over SpecKL.                                           *)
(***************************************************************************)
\* the call that returned last is a Get/GetMulti
GetOver == lastRet.fn = "GetMulti"

\* the call that returned last is a Set
SetIsOver == lastRet.fn = "Set"

\* C4 -- single flight: between a Get of k that got the miss without waiting
\* and the next Set of k, no other Get of k gets a miss without waiting.
SingleFlight == \A k \in KLKeys : recomputers[k] <= 1

\* C5 -- a Get that waited on an item and was woken by the Set that closed it
\* returns the value of that Set in that slot, and the store's value in the
\* slots the store answered.
WokenBySetGetsItsValue ==
    (GetOver /\ lastRet.err = NoError) =>
        \A j \in 1..Len(lastRet.keys) :
            /\ lastRet.slots[j].how = "done" =>
                    lastRet.bb[j] = heap[lastRet.slots[j].src].closedWith
            /\ lastRet.slots[j].how = "hit" => lastRet.bb[j] = lastRet.mget[j]

\* C6 as stated -- a waiter released by its context while no Set had signalled
\* the item returns a nil value and a nil error.
CancelledWaiterMisses ==
    GetOver =>
        \A j \in 1..Len(lastRet.slots) :
            (lastRet.slots[j].how = "ctx" /\ lastRet.slots[j].early) =>
                (lastRet.err = NoError /\ lastRet.bb[j] = nil)

\* C6 amended -- a waiter released by its context returns a nil error, and a
\* nil value unless a Set had written the item by the time the waiter read
\* it; then it returns a value that was Set.
CancelledWaiterNoError ==
    GetOver =>
        \A j \in 1..Len(lastRet.slots) :
            lastRet.slots[j].how = "ctx" =>
                /\ lastRet.err = NoError
                /\ lastRet.panic = ""
                /\ ~lastRet.slots[j].seen => lastRet.bb[j] = nil
                /\ lastRet.slots[j].seen => ~lastRet.bb[j].isNil

\* a waiter released by its context before any Set has returned its miss
CancelledWaiterNoErrorWitness ==
    /\ GetOver
    /\ \E j \in 1..Len(lastRet.slots) :
          /\ lastRet.slots[j].how = "ctx"
          /\ lastRet.slots[j].early
          /\ ~lastRet.slots[j].seen
          /\ lastRet.bb[j] = nil
          /\ lastRet.err = NoError

\* C7 -- after waiters on k have returned because of their context, the Set
\* of k by the goroutine that got the miss completes without a panic.
RecomputerSetUnaffected ==
    (SetIsOver /\ lastRet.asDesignated /\ lastRet.item.Key \in cancelled)
        => lastRet.panic = ""

\* C8 -- once no call is in progress and every goroutine that got a miss of k
\* has completed its Set of k or given the recompute up, contention.items
\* holds no item for k.
NoLeak ==
    \A k \in KLKeys :
        (/\ \A p \in Procs : g[p].pc = "idle"
         /\ \A p \in Procs : <<p, k>> \notin owing)
            => items[k] = 0

(***************************************************************************)
(* Namespace handles: bypass, resolution, stickiness, errors, wire format. *)
(***************************************************************************)
\* C11 -- under BypassReadWriting no operation of the facade or of a
\* namespace handle issues a Set or a Delete to the store.
BypassAllNoWrite ==
    lastOp.bypass = BypassReadWriting =>
        \A i \in 1..Len(lastOp.calls) : lastOp.calls[i].fn \notin {"Set", "Delete"}

(***************************************************************************)
(* storage.MultiStorage: a list of storages (tiers) behind one Storage.    *)
(* failAt numbers the tier whose call returns an error (0: none does).     *)
(* Go indexes from 0, the model from 1.                                    *)
(***************************************************************************)
MultiKeys == {"key1", "key2"}

MultiKeyLists == {<<"key1">>, <<"key1", "key2">>, <<"key2", "key1">>, <<"key1", "key1">>}

MultiItemLists == {<<Item("key1", Bytes(<<7>>), Minute)>>,
                   <<Item("key2", Bytes(<<>>), Minute), Item("key1", Bytes(<<>>), Minute)>>}

\* what one tier may hold
TierContents ==
    UNION {[S -> {Bytes(p) : p \in Payloads}] : S \in SUBSET MultiKeys}

TierCall(t, fn, keys, its, err) ==
    [tier |-> t, fn |-> fn, keys |-> keys, items |-> its, err |-> err]

MultiResult(reply, err, ts, calls) ==
    [reply |-> reply, err |-> err, tiers |-> ts, calls |-> calls]

\* for i, b := range bb { if b == nil { missIdx = append(missIdx, i) } }
RECURSIVE MissIdx(_, _)
MissIdx(bb, i) ==
    IF i > Len(bb) THEN <<>>
    ELSE (IF bb[i].isNil THEN <<i>> ELSE <<>>) \o MissIdx(bb, i + 1)

\* keymap[key] = idx, for each idx of missIdx in order
RECURSIVE BuildKeymap(_, _, _, _)
BuildKeymap(keys, missIdx, i, keymap) ==
    IF i > Len(missIdx) THEN keymap
    ELSE LET key == keys[missIdx[i]]
         IN BuildKeymap(keys, missIdx, i + 1,
                [k \in DOMAIN keymap \cup {key} |->
                    IF k = key THEN missIdx[i] ELSE keymap[k]])

\* miss[i] = keys[idx]
MissKeys(keys, missIdx) == [i \in 1..Len(missIdx) |-> keys[missIdx[i]]]

\* the loop over one tier's reply: bb[keymap[key]] = b, or the key stays missing
RECURSIVE FillLoop(_, _, _, _, _, _)
FillLoop(res, miss, i, bb, keymap, newMiss) ==
    IF i > Len(res) THEN [bb |-> bb, miss |-> newMiss]
    ELSE IF res[i].isNil
         THEN FillLoop(res, miss, i + 1, bb, keymap, Append(newMiss, miss[i]))
         ELSE FillLoop(res, miss, i + 1, [bb EXCEPT ![keymap[miss[i]]] = res[i]],
                       keymap, newMiss)

\* a loop that goes on to the next tier when a tier fails
RECURSIVE TierLoop_FallThrough(_, _, _, _, _, _, _)
TierLoop_FallThrough(ts, i, miss, bb, keymap, failAt, calls) ==
    IF i > Len(ts) THEN MultiResult(Reply(bb), NoError, ts, calls)
    ELSE LET c == TierCall(i, "MGet", miss, <<>>, FailErr(failAt, i))
         IN IF c.err # NoError
            THEN TierLoop_FallThrough(ts, i + 1, miss, bb, keymap, failAt,
                                      Append(calls, c))
            ELSE LET f == FillLoop(StorageMGet(ts[i], miss), miss, 1, bb, keymap, <<>>)
                 IN TierLoop_FallThrough(ts, i + 1, f.miss, f.bb, keymap, failAt,
                                         Append(calls, c))

\* for i := 1; i < len(m.storages); i++
RECURSIVE TierLoop(_, _, _, _, _, _, _)
TierLoop(ts, i, miss, bb, keymap, failAt, calls) ==
    IF i > Len(ts) THEN MultiResult(Reply(bb), NoError, ts, calls)
    ELSE LET c == TierCall(i, "MGet", miss, <<>>, FailErr(failAt, i))
         IN IF c.err # NoError
            THEN MultiResult(nilReply, c.err, ts, Append(calls, c))
            ELSE LET f == FillLoop(StorageMGet(ts[i], miss), miss, 1, bb, keymap, <<>>)
                 IN TierLoop(ts, i + 1, f.miss, f.bb, keymap, failAt, Append(calls, c))

MultiStorageMGet(ts, keys, failAt) ==
    LET c == TierCall(1, "MGet", keys, <<>>, FailErr(failAt, 1))
        bb == StorageMGet(ts[1], keys)
        missIdx == MissIdx(bb, 1)
    IN IF c.err # NoError THEN MultiResult(nilReply, c.err, ts, <<c>>)
       ELSE IF Len(missIdx) = 0 THEN MultiResult(Reply(bb), NoError, ts, <<c>>)
       ELSE TierLoop(ts, 2, MissKeys(keys, missIdx), bb,
                     BuildKeymap(keys, missIdx, 1, <<>>), failAt, <<c>>)

\* a Set that goes on to the next tier when a tier fails
RECURSIVE MultiSetLoop_KeepGoing(_, _, _, _, _)
MultiSetLoop_KeepGoing(ts, i, its, failAt, calls) ==
    IF i > Len(ts)
    THEN MultiResult(nilReply, IF failAt \in 1..Len(ts) THEN ErrStore ELSE NoError,
                     ts, calls)
    ELSE LET c == TierCall(i, "Set", <<>>, its, FailErr(failAt, i))
         IN MultiSetLoop_KeepGoing(
                IF c.err # NoError THEN ts
                ELSE [ts EXCEPT ![i] = StorageSet(ts[i], its)],
                i + 1, its, failAt, Append(calls, c))

\* MultiStorage.Set: for _, storage := range m.storages
RECURSIVE MultiSetLoop(_, _, _, _, _)
MultiSetLoop(ts, i, its, failAt, calls) ==
    IF i > Len(ts) THEN MultiResult(nilReply, NoError, ts, calls)
    ELSE LET c == TierCall(i, "Set", <<>>, its, FailErr(failAt, i))
         IN IF c.err # NoError
            THEN MultiResult(nilReply, c.err, ts, Append(calls, c))
            ELSE MultiSetLoop([ts EXCEPT ![i] = StorageSet(ts[i], its)], i + 1, its,
                              failAt, Append(calls, c))

\* MultiStorage.Delete: for _, storage := range m.storages
RECURSIVE MultiDeleteLoop(_, _, _, _, _)
MultiDeleteLoop(ts, i, keys, failAt, calls) ==
    IF i > Len(ts) THEN MultiResult(nilReply, NoError, ts, calls)
    ELSE LET c == TierCall(i, "Delete", keys, <<>>, FailErr(failAt, i))
         IN IF c.err # NoError
            THEN MultiResult(nilReply, c.err, ts, Append(calls, c))
            ELSE MultiDeleteLoop([ts EXCEPT ![i] = StorageDelete(ts[i], keys)], i + 1,
                                 keys, failAt, Append(calls, c))

\* NewMultiStorage(storages...), each storage holding what it holds
InitMulti ==
    /\ store = <<>>
    /\ clock = 0
    /\ recyclable = TRUE
    /\ handles = [h \in Handles |-> [nskeys |-> <<"nskey2">>, nsversion |-> 0]]
    /\ lastOp = NoOp
    /\ lastSet = [k \in UserKeys |-> NoSet]
    /\ setVia = [k \in UserKeys |-> {}]
    /\ killed = [k \in UserKeys |-> {}]
    /\ mustMiss = [h \in Handles |-> {}]
    /\ dirty = [h \in Handles |-> FALSE]
    /\ nsteps = 0
    /\ KLIdle
    /\ \E n \in 1..MaxTiers : tiers \in [1..n -> TierContents]
    /\ lastMulti = NoMulti
    /\ WrapIdle
    /\ ResIdle
    /\ GzIdle
    /\ OptIdle
    /\ PipeIdle
    /\ ThreadsIdle

MultiMGet(keys, failAt) ==
    /\ \E r \in {MultiStorageMGet(tiers, keys, failAt)} :
          /\ failAt <= Len(r.calls)
          /\ lastMulti' = [NoMulti EXCEPT !.fn = "MGet", !.keys = keys,
                              !.reply = r.reply, !.err = r.err, !.calls = r.calls,
                              !.failAt = failAt]
    /\ UNCHANGED <<store, nsVars, klVars, tiers, swVars, rsVars, gzVars, opVars, ppVars, shVars>>

MultiSet(its, failAt) ==
    /\ \E r \in {MultiSetLoop(tiers, 1, its, failAt, <<>>)} :
          /\ failAt <= Len(r.calls)
          /\ tiers' = r.tiers
          /\ lastMulti' = [NoMulti EXCEPT !.fn = "Set", !.items = its, !.err = r.err,
                              !.calls = r.calls, !.failAt = failAt]
    /\ UNCHANGED <<store, nsVars, klVars, swVars, rsVars, gzVars, opVars, ppVars, shVars>>

MultiDelete(keys, failAt) ==
    /\ \E r \in {MultiDeleteLoop(tiers, 1, keys, failAt, <<>>)} :
          /\ failAt <= Len(r.calls)
          /\ tiers' = r.tiers
          /\ lastMulti' = [NoMulti EXCEPT !.fn = "Delete", !.keys = keys, !.err = r.err,
                              !.calls = r.calls, !.failAt = failAt]
    /\ UNCHANGED <<store, nsVars, klVars, swVars, rsVars, gzVars, opVars, ppVars, shVars>>

NextMulti ==
    \/ \E keys \in MultiKeyLists, failAt \in 0..MaxTiers : MultiMGet(keys, failAt)
    \/ \E its \in MultiItemLists, failAt \in 0..MaxTiers : MultiSet(its, failAt)
    \/ \E keys \in MultiKeyLists, failAt \in 0..MaxTiers : MultiDelete(keys, failAt)

SpecMulti == InitMulti /\ [][NextMulti]_vars

(***************************************************************************)
(* MultiStorage: tiered reads and writes.                                  *)
(***************************************************************************)
MultiMGetDone == lastMulti.fn = "MGet"

HasTier(key) == \E t \in 1..Len(tiers) : key \in DOMAIN tiers[t]

\* the value of key in the first tier in order that has it, nil when none has
FirstTierValue(key) ==
    IF HasTier(key)
    THEN LET t == CHOOSE t \in 1..Len(tiers) :
                     /\ key \in DOMAIN tiers[t]
                     /\ \A u \in 1..(t - 1) : key \notin DOMAIN tiers[u]
         IN tiers[t][key]
    ELSE nil

\* C12 -- an MGet without error returns a reply as long as the key list, slot i
\* holding the value of keys[i] from the first tier that has it and nil only
\* when no tier has it, for key lists that repeat a key too.
TieredReadResult ==
    (MultiMGetDone /\ lastMulti.err = NoError) =>
        /\ ~lastMulti.reply.isNil
        /\ Len(lastMulti.reply.slots) = Len(lastMulti.keys)
        /\ \A i \in 1..Len(lastMulti.keys) :
              lastMulti.reply.slots[i] = FirstTierValue(lastMulti.keys[i])

\* C13 -- when a tier's MGet fails, MultiStorage.MGet returns that error with a
\* nil reply, the failing tier is the last one queried, and the tiers before it
\* were queried in order, one call each.
TierErrorStops ==
    (MultiMGetDone /\ lastMulti.failAt # 0) =>
        /\ lastMulti.err = ErrStore
        /\ lastMulti.reply.isNil
        /\ Len(lastMulti.calls) = lastMulti.failAt
        /\ \A i \in 1..Len(lastMulti.calls) :
              /\ lastMulti.calls[i].tier = i
              /\ lastMulti.calls[i].fn = "MGet"
              /\ lastMulti.calls[i].err = (IF i = lastMulti.failAt THEN ErrStore ELSE NoError)

\* a tier fails that has a tier behind it
TierErrorStopsWitness ==
    /\ MultiMGetDone
    /\ lastMulti.failAt \in 1..(Len(tiers) - 1)
    /\ lastMulti.err = ErrStore

MultiWriteDone == lastMulti.fn \in {"Set", "Delete"}

\* the tiers that received the batch of the last Set or Delete and applied it
Applied ==
    IF lastMulti.failAt = 0 THEN 1..Len(tiers) ELSE 1..(lastMulti.failAt - 1)

\* the batch of the last Set or Delete is in effect in tier t
InEffect(t) ==
    IF lastMulti.fn = "Set"
    THEN tiers[t] = StorageSet(tiers[t], lastMulti.items)
    ELSE \A i \in 1..Len(lastMulti.keys) : lastMulti.keys[i] \notin DOMAIN tiers[t]

\* C14 -- Set and Delete hand the full batch to the tiers in list order, one
\* call each; the first failing tier is the last one called and its error is
\* returned; the tiers before it keep what they applied; with no error every
\* tier got the full batch exactly once.
WriteForwarding ==
    MultiWriteDone =>
        /\ lastMulti.err = (IF lastMulti.failAt = 0 THEN NoError ELSE ErrStore)
        /\ Len(lastMulti.calls) =
              (IF lastMulti.failAt = 0 THEN Len(tiers) ELSE lastMulti.failAt)
        /\ \A i \in 1..Len(lastMulti.calls) :
              /\ lastMulti.calls[i].tier = i
              /\ lastMulti.calls[i].fn = lastMulti.fn
              /\ lastMulti.calls[i].keys = lastMulti.keys
              /\ lastMulti.calls[i].items = lastMulti.items
        /\ \A t \in Applied : InEffect(t)

\* a write fails at a tier that has a tier before it and one behind it
WriteForwardingWitness ==
    /\ MultiWriteDone
    /\ lastMulti.failAt = 2
    /\ Len(tiers) = 3
    /\ lastMulti.err = ErrStore
    /\ InEffect(1)
    /\ ~InEffect(3)

(***************************************************************************)
(* newStorageWrapper and storageWrapper.MGet.  A hook slice is a window    *)
(* [arr, len] on a backing array of the heap `arrays`, whose length is the *)
(* slice's capacity; the nil slice is [arr |-> 0, len |-> 0].  Hook n is   *)
(* the n-th AfterMGet hook registered; it appends the byte n to what it is *)
(* given, as the hooks of TestNewStorageWrapper append their names.        *)
(***************************************************************************)
NilSlice == [arr |-> 0, len |-> 0]

Cap(arrs, s) == IF s.arr = 0 THEN 0 ELSE Len(arrs[s.arr])

\* the capacity append gives a slice of function values that has to grow
growslice(oldCap, needed) == IF needed > 2 * oldCap THEN needed ELSE 2 * oldCap

\* w.afterMGet = append(w.afterMGet, h.AfterMGet)
AppendHook(arrs, s, h) ==
    IF s.len < Cap(arrs, s)
    THEN [arrays |-> [arrs EXCEPT ![s.arr][s.len + 1] = h],
          slice |-> [arr |-> s.arr, len |-> s.len + 1]]
    ELSE LET newCap == growslice(Cap(arrs, s), s.len + 1)
             fresh == [i \in 1..newCap |->
                          IF i <= s.len THEN arrs[s.arr][i]
                          ELSE IF i = s.len + 1 THEN h ELSE 0]
         IN [arrays |-> Append(arrs, fresh),
             slice |-> [arr |-> Len(arrs) + 1, len |-> s.len + 1]]

\* for _, h := range hooks: the hooks first..last are appended one by one
RECURSIVE AppendHooks(_, _, _, _)
AppendHooks(arrs, s, first, last) ==
    IF first > last THEN [arrays |-> arrs, slice |-> s]
    ELSE LET a == AppendHook(arrs, s, first)
         IN AppendHooks(a.arrays, a.slice, first + 1, last)

\* the hooks a wrapper runs: w.afterMGet as the backing array holds it now
HooksOf(w) ==
    IF w.afterMGet.arr = 0 THEN <<>>
    ELSE SubSeq(arrays[w.afterMGet.arr], 1, w.afterMGet.len)

\* hook n of the model: return append(b, n), nil
Hook(n, b) == Bytes(Append(b.bytes, n))

\* for _, hook := range w.afterMGet { bb[i], err = hook(ctx, keys[i], bb[i]) }
RECURSIVE RunHooks(_, _, _)
RunHooks(hooks, i, b) ==
    IF i > Len(hooks) THEN b ELSE RunHooks(hooks, i + 1, Hook(hooks[i], b))

WrapKeyLists == {<<"key1">>, <<"key1", "key2">>}

\* what the base store answers: key1 is stored, key2 is not
BaseMGet(keys) == [i \in 1..Len(keys) |-> IF keys[i] = "key1" THEN Bytes(<<>>) ELSE nil]

\* newStorageWrapper(storage, hooks...): parent 0 is the base store, parent p > 0
\* the p-th wrapper built; count hooks are registered, each with an AfterMGet
Wrap(parent, count) ==
    /\ Len(wrappers) < MaxWrappers
    /\ LET w == IF parent = 0
                THEN [Storage |-> "base", afterMGet |-> NilSlice, regs |-> <<>>]
                ELSE wrappers[parent]
           a == AppendHooks(arrays, w.afterMGet, nhooks + 1, nhooks + count)
       IN /\ arrays' = a.arrays
          /\ wrappers' = Append(wrappers,
                [Storage |-> w.Storage, afterMGet |-> a.slice,
                 regs |-> w.regs \o [i \in 1..count |-> nhooks + i]])
    /\ nhooks' = nhooks + count
    /\ UNCHANGED <<store, nsVars, klVars, msVars, rsVars, gzVars, opVars, ppVars, shVars, lastWrapGet>>

\* storageWrapper.MGet on the w-th wrapper built
WrapperMGet(w, keys) ==
    /\ LET bb == BaseMGet(keys)
       IN lastWrapGet' =
             [fn |-> "MGet", w |-> w, keys |-> keys, baseCalls |-> 1,
              bb |-> IF Len(HooksOf(wrappers[w])) > 0
                     THEN [i \in 1..Len(bb) |-> RunHooks(HooksOf(wrappers[w]), 1, bb[i])]
                     ELSE bb]
    /\ UNCHANGED <<store, nsVars, klVars, msVars, rsVars, gzVars, opVars, ppVars, shVars, arrays, wrappers, nhooks>>

InitWrap ==
    /\ store = <<>>
    /\ clock = 0
    /\ recyclable = TRUE
    /\ handles = [h \in Handles |-> [nskeys |-> <<"nskey2">>, nsversion |-> 0]]
    /\ lastOp = NoOp
    /\ lastSet = [k \in UserKeys |-> NoSet]
    /\ setVia = [k \in UserKeys |-> {}]
    /\ killed = [k \in UserKeys |-> {}]
    /\ mustMiss = [h \in Handles |-> {}]
    /\ dirty = [h \in Handles |-> FALSE]
    /\ nsteps = 0
    /\ KLIdle
    /\ MultiIdle
    /\ WrapIdle
    /\ ResIdle
    /\ GzIdle
    /\ OptIdle
    /\ PipeIdle
    /\ ThreadsIdle

NextWrap ==
    \/ \E parent \in 0..Len(wrappers), count \in 1..MaxHooks : Wrap(parent, count)
    \/ \E w \in 1..Len(wrappers), keys \in WrapKeyLists : WrapperMGet(w, keys)

SpecWrap == InitWrap /\ [][NextWrap]_vars

\* C15 -- one MGet on a wrapper, however the wrapper was built, calls the base
\* store's MGet once and threads every slot through all after-read hooks of
\* the registrations that built it, earliest registration first.
HookFlattening ==
    lastWrapGet.fn = "MGet" =>
        /\ lastWrapGet.baseCalls = 1
        /\ wrappers[lastWrapGet.w].Storage = "base"
        /\ \A i \in 1..Len(lastWrapGet.keys) :
              lastWrapGet.bb[i] =
                  RunHooks(wrappers[lastWrapGet.w].regs, 1, BaseMGet(lastWrapGet.keys)[i])

(***************************************************************************)
(* Resolution of the namespace version.                                    *)
(***************************************************************************)
IsNSOp(op) == op.fn \in {"CacheNS.Get", "CacheNS.Set"}

\* byte i of the little-endian encoding of v
RECURSIVE LEByte(_, _)
LEByte(v, i) == IF i = 1 THEN v % 256 ELSE LEByte(v \div 256, i - 1)

LittleEndian(v) == [i \in 1..8 |-> LEByte(v, i)]

\* the integer a little-endian prefix stands for
RECURSIVE LEDecode(_)
LEDecode(b) == IF b = <<>> THEN 0 ELSE Head(b) + 256 * LEDecode(Tail(b))

\* the calls of a list that write a namespace key
SeedCalls(calls) ==
    {j \in 1..Len(calls) :
        /\ calls[j].fn = "Set"
        /\ \E i \in 1..Len(calls[j].items) : calls[j].items[i].Key \in NSKeys}

\* the keys of N that st does not hold, in the order of N
MissingNS(st, N) == SelectSeq(N, LAMBDA k : k \notin DOMAIN st)

MaxOf(S) == CHOOSE m \in S : \A x \in S : x <= m

\* a step in which a Get or a Set resolves the version of its handle
Resolves ==
    /\ IsNSOp(lastOp')
    /\ nsteps' = nsteps + 1
    /\ handles[lastOp'.h].nsversion = 0
    /\ handles'[lastOp'.h].nsversion # 0

ResolutionStep ==
    Resolves =>
        LET N == handles[lastOp'.h].nskeys
            miss == MissingNS(store, N)
            seeds == SeedCalls(lastOp'.calls)
        IN /\ Cardinality(seeds) = (IF miss = <<>> THEN 0 ELSE 1)
           /\ \A j \in seeds :
                 LET its == lastOp'.calls[j].items
                 IN /\ Len(its) = Len(miss)
                    /\ \A i \in 1..Len(its) :
                          /\ its[i].Key = miss[i]
                          /\ its[i].TTL = nsttl
                          /\ \E t \in (clock + 1)..clock' :
                                its[i].Value = Bytes(LittleEndian(t))
                          /\ store'[miss[i]] = its[i].Value
           /\ \A i \in 1..Len(N) : N[i] \in DOMAIN store => store'[N[i]] = store[N[i]]
           /\ handles'[lastOp'.h].nsversion =
                 MaxOf({LEDecode(store'[N[i]].bytes) : i \in 1..Len(N)})

TouchedKeys(calls) ==
    UNION {Range(calls[j].keys) \cup {calls[j].items[i].Key : i \in 1..Len(calls[j].items)} :
              j \in 1..Len(calls)}

\* the key under which a handle at version v keeps the user key
WireKey(key, v) ==
    IF recyclable THEN buildRecyclableKey(key) ELSE buildVersionedKey(key, v)

\* a step of a Get or a Set on handle h
NSOpOn(h) == IsNSOp(lastOp') /\ lastOp'.h = h /\ nsteps' = nsteps + 1

StickyStep ==
    \A h \in Handles :
        (handles[h].nsversion # 0 /\ NSOpOn(h)) =>
            LET v == handles[h].nsversion
                key == IF lastOp'.fn = "CacheNS.Get" THEN lastOp'.keys[1]
                       ELSE lastOp'.items[1].Key
            IN /\ handles'[h].nsversion = v
               /\ TouchedKeys(lastOp'.calls) \cap NSKeys = {}
               /\ TouchedKeys(lastOp'.calls) \subseteq {WireKey(key, v)}
               /\ \A k \in NSKeys :
                     /\ k \in DOMAIN store' <=> k \in DOMAIN store
                     /\ k \in DOMAIN store => store'[k] = store[k]

\* C17 -- a Get or a Set on a handle whose version is resolved to v leaves the
\* version at v, works on the wire key of v and neither reads nor writes a
\* namespace key, whatever the store holds for the namespace keys.
StickyVersion == [][StickyStep]_vars

\* a resolved handle is used after a namespace key of its was deleted
StickyVersionWitness ==
    /\ IsNSOp(lastOp)
    /\ ~lastOp.unresolved
    /\ lastOp.calls # <<>>
    /\ dirty[lastOp.h]
    /\ \E i \in 1..Len(GotHandle.nskeys) : GotHandle.nskeys[i] \notin DOMAIN store

\* C18 -- when the MGet of the namespace keys or the Set seeding the missing
\* ones fails, the Get or Set returns the store's error, hands no data item to
\* the store and leaves the handle unresolved.
ResolutionFailure ==
    (/\ IsNSOp(lastOp)
     /\ lastOp.unresolved
     /\ \/ lastOp.fail = 1
        \/ lastOp.fail = 2 /\ 2 \in SeedCalls(lastOp.calls))
    => /\ lastOp.err = ErrStore
       /\ lastOp.b = nil
       /\ Len(lastOp.calls) = lastOp.fail
       /\ \A j \in 1..Len(lastOp.calls) :
             \A i \in 1..Len(lastOp.calls[j].items) :
                lastOp.calls[j].items[i].Key \in NSKeys
       /\ GotHandle.nsversion = 0

\* the Set seeding the missing namespace keys fails
ResolutionFailureWitness ==
    /\ IsNSOp(lastOp)
    /\ lastOp.fail = 2
    /\ 2 \in SeedCalls(lastOp.calls)
    /\ lastOp.err = ErrStore
    /\ GotHandle.nsversion = 0

(***************************************************************************)
(* The recyclable wire format.                                             *)
(***************************************************************************)
\* a Get of the recyclable strategy in Normal mode whose store calls succeed
RecyclableGet == recyclable /\ NSGetDone /\ lastOp.err = NoError

GotWire == buildRecyclableKey(GotKey)

\* the stored value of the wire key carries a version the handle accepts
StoredVersionFresh ==
    /\ GotWire \in DOMAIN store
    /\ LEDecode(SubSeq(store[GotWire].bytes, 1, 8)) >= GotHandle.nsversion

\* C19 -- under the recyclable strategy in Normal mode, Get returns the stored
\* payload without its 8-byte prefix when the wire key is present and its
\* stored version is at least the handle's version, and (nil, nil) otherwise.
RecyclableHitRule ==
    RecyclableGet =>
        lastOp.b = (IF StoredVersionFresh
                    THEN Bytes(SubSeq(store[GotWire].bytes, 9, Len(store[GotWire].bytes)))
                    ELSE nil)

\* a hit on a value stored at the very version of the handle
RecyclableHitRuleWitness ==
    /\ RecyclableGet
    /\ GotWire \in DOMAIN store
    /\ LEDecode(SubSeq(store[GotWire].bytes, 1, 8)) = GotHandle.nsversion
    /\ ~lastOp.b.isNil

\* the data items a list of calls hands to the store
DataItems(calls) ==
    {it \in UNION {Range(calls[j].items) : j \in 1..Len(calls)} : it.Key \notin NSKeys}

\* C20 -- every data item a handle of the recyclable strategy hands to the
\* store has a value of at least 8 bytes: the little-endian encoding of the
\* handle's version at that write, then the caller's bytes unchanged.
RecyclableWireValue ==
    (recyclable /\ IsNSOp(lastOp)) =>
        \A it \in DataItems(lastOp.calls) :
            /\ lastOp.fn = "CacheNS.Set"
            /\ ~it.Value.isNil
            /\ Len(it.Value.bytes) >= 8
            /\ SubSeq(it.Value.bytes, 1, 8) = LittleEndian(GotHandle.nsversion)
            /\ SubSeq(it.Value.bytes, 9, Len(it.Value.bytes)) = lastOp.items[1].Value.bytes
            /\ GotHandle.nsversion # 0

\* a Set of no bytes at all: the stored value is the 8-byte version alone
RecyclableWireValueWitness ==
    /\ recyclable
    /\ lastOp.fn = "CacheNS.Set"
    /\ lastOp.items[1].Value.bytes = <<>>
    /\ \E it \in DataItems(lastOp.calls) : Len(it.Value.bytes) = 8

(***************************************************************************)
(* Wire keys.                                                              *)
(***************************************************************************)
\* the user key a Get or a Set of a handle is about
OpKey(op) == IF op.fn = "CacheNS.Get" THEN op.keys[1] ELSE op.items[1].Key

\* n in base 10
RECURSIVE Base10(_)
Base10(n) ==
    LET d == <<"0", "1", "2", "3", "4", "5", "6", "7", "8", "9">>
    IN IF n < 10 THEN d[n + 1] ELSE Base10(n \div 10) \o d[(n % 10) + 1]

\* the wire key of user key k at version v as the interface documents it
DocumentedWireKey(k, v) ==
    IF recyclable THEN "cachebox:rk:" \o k
    ELSE (("cachebox:v" \o Base10(v)) \o ":") \o k

\* C21 -- a handle reads and writes user key k under "cachebox:rk:" k in the
\* recyclable strategy and under "cachebox:v" nsVersion ":" k in the versioned
\* strategy, Get and Set alike.
WireKeys ==
    IsNSOp(lastOp) =>
        (TouchedKeys(lastOp.calls) \ NSKeys)
            \subseteq {DocumentedWireKey(OpKey(lastOp), GotHandle.nsversion)}

(***************************************************************************)
(* Concurrent resolutions: goroutines calling CacheNS.Set, each on a       *)
(* handle of its own, step by step: the MGet of the namespace keys, the    *)
(* loop of mostRecentTimestamp, its Set of the missing keys, the Set of    *)
(* the data item.  hist keeps, per namespace key, the highest value ever   *)
(* stored, whether the key was ever deleted, the highest version under     *)
(* which a data item of a group with the key was written, and that version *)
(* as of the last delete of the key.                                       *)
(***************************************************************************)
Resolvers == 1..MaxResolvers

nsGhost == <<handles, lastOp, lastSet, setVia, killed, mustMiss, dirty, nsteps>>

ResItem == Item("key1", Bytes(<<7>>), Minute)

\* CacheNS.Set on a fresh handle over nskeys: bb, err := c.cache.storage.MGet
ResMGet(p, nskeys) ==
    /\ nres < MaxResolutions
    /\ resolving[p].pc = "idle"
    /\ resolving' = [resolving EXCEPT ![p] =
                 [IdleRes EXCEPT !.pc = "stamp", !.nskeys = nskeys,
                                 !.bb = StorageMGet(store, nskeys),
                                 !.rebirth = {k \in Range(nskeys) :
                                                 /\ k \notin DOMAIN store
                                                 /\ k \in hist.invalidated}]]
    /\ nres' = nres + 1
    /\ UNCHANGED <<store, clock, recyclable, nsGhost, klVars, msVars, swVars, gzVars, opVars, ppVars, shVars, hist,
                   lastNSWrite>>

\* mostRecentTimestamp: the loop over the keys, one reading of now() per
\* missing key
ResStamp(p) ==
    /\ resolving[p].pc = "stamp"
    /\ \E r \in {mostRecentLoop(resolving[p].nskeys, resolving[p].bb, 1, clock, 0, <<>>)} :
          /\ r.clock <= MaxClock
          /\ clock' = r.clock
          /\ resolving' = [resolving EXCEPT ![p].pc = IF Len(r.items) > 0 THEN "set" ELSE "data",
                                ![p].items = r.items,
                                ![p].ts = r.ts]
    /\ UNCHANGED <<store, recyclable, nsGhost, klVars, msVars, swVars, gzVars, opVars, ppVars, shVars, hist,
                   lastNSWrite, nres>>

\* mostRecentTimestamp: c.cache.storage.Set(ctx, items...)
ResSet(p) ==
    /\ resolving[p].pc = "set"
    /\ store' = StorageSet(store, resolving[p].items)
    /\ lastNSWrite' =
          {[key |-> resolving[p].items[i].Key,
            value |-> unmarshalInt64(resolving[p].items[i].Value.bytes),
            before |-> hist.highest[resolving[p].items[i].Key],
            rebirth |-> resolving[p].items[i].Key \in resolving[p].rebirth,
            dataBefore |-> hist.dataAtInval[resolving[p].items[i].Key]] :
              i \in 1..Len(resolving[p].items)}
    /\ hist' = [hist EXCEPT !.highest =
                  [k \in NSKeys |->
                      LET at == {i \in 1..Len(resolving[p].items) :
                                    resolving[p].items[i].Key = k}
                      IN IF at = {} THEN hist.highest[k]
                         ELSE Max(hist.highest[k],
                                  unmarshalInt64(
                                      resolving[p].items[CHOOSE i \in at : TRUE].Value.bytes))]]
    /\ resolving' = [resolving EXCEPT ![p].pc = "data"]
    /\ UNCHANGED <<clock, recyclable, nsGhost, klVars, msVars, swVars, gzVars, opVars, ppVars, shVars, nres>>

\* CacheNS.Set: c.nsversion = nsversion, then the Set of the data item
ResData(p) ==
    /\ resolving[p].pc = "data"
    /\ store' = StorageSet(store, <<nsWireItem(recyclable, resolving[p].ts, ResItem)>>)
    /\ hist' = [hist EXCEPT !.dataVer =
                  [k \in NSKeys |->
                      IF k \in Range(resolving[p].nskeys)
                      THEN Max(hist.dataVer[k], resolving[p].ts)
                      ELSE hist.dataVer[k]]]
    /\ resolving' = [resolving EXCEPT ![p] = IdleRes]
    /\ UNCHANGED <<clock, recyclable, nsGhost, klVars, msVars, swVars, gzVars, opVars, ppVars, shVars, lastNSWrite, nres>>

\* Cache.Delete of a namespace key: the group is invalidated
ResDelete(k) ==
    /\ k \in DOMAIN store
    /\ store' = CacheDelete(store, NoBypass, k, 0).store
    /\ hist' = [hist EXCEPT !.invalidated = @ \cup {k},
                            !.dataAtInval[k] = hist.dataVer[k]]
    /\ UNCHANGED <<clock, recyclable, nsGhost, klVars, msVars, swVars, gzVars, opVars, ppVars, shVars, resolving,
                   lastNSWrite, nres>>

InitRes ==
    /\ store = <<>>
    /\ clock = 0
    /\ recyclable \in BOOLEAN
    /\ handles = [h \in Handles |-> [nskeys |-> <<"nskey2">>, nsversion |-> 0]]
    /\ lastOp = NoOp
    /\ lastSet = [k \in UserKeys |-> NoSet]
    /\ setVia = [k \in UserKeys |-> {}]
    /\ killed = [k \in UserKeys |-> {}]
    /\ mustMiss = [h \in Handles |-> {}]
    /\ dirty = [h \in Handles |-> FALSE]
    /\ nsteps = 0
    /\ KLIdle
    /\ MultiIdle
    /\ WrapIdle
    /\ ResIdle
    /\ GzIdle
    /\ OptIdle
    /\ PipeIdle
    /\ ThreadsIdle

NextRes ==
    \/ \E p \in Resolvers, nskeys \in NSLists : ResMGet(p, nskeys)
    \/ \E p \in Resolvers : ResStamp(p)
    \/ \E p \in Resolvers : ResSet(p)
    \/ \E p \in Resolvers : ResData(p)
    \/ \E k \in NSKeys : ResDelete(k)

SpecRes == InitRes /\ [][NextRes]_vars

\* C22 -- each value written under a namespace key is greater than or equal to
\* every value stored under the key before, in any interleaving of resolutions.
NSKeyMonotonic == \A w \in lastNSWrite : w.value >= w.before

\* C23 -- the timestamp a resolution writes for a key it found missing after an
\* invalidation is strictly greater than every value stored under the key
\* before and than every version under which data items of the group were
\* written before the invalidation.
RebirthStrictlyNewer ==
    \A w \in lastNSWrite :
        w.rebirth => (w.value > w.before /\ w.value > w.dataBefore)

(***************************************************************************)
(* WithGzipCompression.  A gzip member is modelled byte by byte: the ten   *)
(* bytes of the header, the deflate stream as one stored block, and the    *)
(* trailer of checksum and size; the checksum is the sum of the bytes, in  *)
(* the place of the CRC-32.  gzip.NewReader reads the ten header bytes     *)
(* before it looks at them.                                                *)
(***************************************************************************)
gzipID1 == 31
gzipID2 == 139
gzipDeflate == 8

ErrEOF == "EOF"
ErrUnexpectedEOF == "unexpected EOF"
ErrChecksum == "gzip: invalid checksum"
ErrCorrupt == "flate: corrupt input before offset"
ErrLevel == "gzip: invalid compression level"

\* gzip.HuffmanOnly .. gzip.BestCompression
ValidLevels == (0 - 2)..9

GzLevels == {0 - 3, 0 - 2, 0 - 1, 0, 1, 9, 10}

GzAlphabet == {7, gzipID1, gzipID2}

\* the byte strings of at most MaxGzLen bytes
GzShort == UNION {[1..n -> GzAlphabet] : n \in 0..MaxGzLen}

\* values as long as a gzip header or longer that are no gzip members
GzLong ==
    {[i \in 1..10 |-> 7], [i \in 1..11 |-> 7],
     [i \in 1..10 |-> IF i = 1 THEN gzipID1 ELSE 7],
     [i \in 1..10 |-> IF i = 1 THEN gzipID1 ELSE IF i = 2 THEN gzipID2 ELSE 7]}

RECURSIVE SumBytes(_)
SumBytes(b) == IF b = <<>> THEN 0 ELSE (Head(b) + SumBytes(Tail(b))) % 256

\* the four bytes of the checksum
gzChecksum(b) == <<SumBytes(b), 0, 0, 0>>

\* the header gzip.Writer writes: magic, method, no flags, no time, XFL, OS
gzHeader(level) ==
    <<gzipID1, gzipID2, gzipDeflate, 0, 0, 0, 0, 0,
      IF level = 9 THEN 2 ELSE IF level = 1 THEN 4 ELSE 0, 255>>

\* one final stored block: BFINAL, LEN, NLEN, the bytes
gzDeflate(b) ==
    <<1, Len(b) % 256, Len(b) \div 256, 255 - (Len(b) % 256), 255 - (Len(b) \div 256)>> \o b

gzTrailer(b) == gzChecksum(b) \o putUint(Len(b), 4)

\* gzipData(b, level)
gzipData(b, level) ==
    IF level \notin ValidLevels THEN [b |-> nil, err |-> ErrLevel]
    ELSE [b |-> Bytes((gzHeader(level) \o gzDeflate(b)) \o gzTrailer(b)), err |-> NoError]

\* r.Read to the end of the member, after a header that was accepted
gzInflate(b) ==
    LET n == Len(b)
        len == b[12] + 256 * b[13]
        data == SubSeq(b, 16, 15 + len)
    IN IF n < 15 THEN [b |-> nil, err |-> ErrUnexpectedEOF]
       ELSE IF b[14] # 255 - b[12] \/ b[15] # 255 - b[13]
            THEN [b |-> nil, err |-> ErrCorrupt]
       ELSE IF n < 15 + len + 8 THEN [b |-> nil, err |-> ErrUnexpectedEOF]
       ELSE IF \/ SubSeq(b, 16 + len, 19 + len) # gzChecksum(data)
               \/ SubSeq(b, 20 + len, 23 + len) # putUint(len, 4)
            THEN [b |-> nil, err |-> ErrChecksum]
       ELSE [b |-> data, err |-> NoError]

\* a gunzip that hands back the nil slice of a buffer nothing was written to
gunzipData_NilWhenEmpty(b) ==
    IF Len(b) = 0 THEN [b |-> nil, err |-> ErrEOF]
    ELSE IF Len(b) < 10 THEN [b |-> nil, err |-> ErrUnexpectedEOF]
    ELSE IF b[1] # gzipID1 \/ b[2] # gzipID2 \/ b[3] # gzipDeflate
         THEN [b |-> Bytes(b), err |-> NoError]
    ELSE LET r == gzInflate(b)
         IN IF r.err # NoError THEN [b |-> nil, err |-> r.err]
            ELSE [b |-> IF r.b = <<>> THEN nil ELSE Bytes(r.b), err |-> NoError]

\* gunzipData(b): gzip.NewReader, then io.Copy into a new buffer.  ErrHeader
\* is the one error that hands the bytes back as they are.
gunzipData(b) ==
    IF Len(b) = 0 THEN [b |-> nil, err |-> ErrEOF]
    ELSE IF Len(b) < 10 THEN [b |-> nil, err |-> ErrUnexpectedEOF]
    ELSE IF b[1] # gzipID1 \/ b[2] # gzipID2 \/ b[3] # gzipDeflate
         THEN [b |-> Bytes(b), err |-> NoError]
    ELSE LET r == gzInflate(b)
         IN IF r.err # NoError THEN [b |-> nil, err |-> r.err]
            ELSE [b |-> Bytes(r.b), err |-> NoError]

\* the BeforeSet hook: gzipCompress(level)
gzipCompress(level, item) ==
    IF item.Value.isNil THEN [item |-> item, err |-> NoError]
    ELSE LET r == gzipData(item.Value.bytes, level)
         IN [item |-> [item EXCEPT !.Value = r.b], err |-> r.err]

\* the AfterMGet hook: gzipUncompress()
gzipUncompress(b) ==
    IF b.isNil THEN [b |-> b, err |-> NoError] ELSE gunzipData(b.bytes)

\* Cache.Set on a cache with gzip compression: the BeforeSet hook, then the
\* store's Set
GzSet(value) ==
    /\ \E r \in {gzipCompress(gz.level, Item("key1", value, Minute))} :
          gz' = IF r.err # NoError
                THEN [gz EXCEPT !.last = [fn |-> "Set", arg |-> value, b |-> nil,
                                          err |-> r.err]]
                ELSE [gz EXCEPT !.stored = r.item.Value, !.src = "set", !.wrote = value,
                                !.last = [fn |-> "Set", arg |-> value, b |-> nil,
                                          err |-> NoError]]
    /\ UNCHANGED <<store, nsVars, klVars, msVars, swVars, rsVars, opVars, ppVars, shVars>>

\* Cache.Get on a cache with gzip compression: the store's MGet, then the
\* AfterMGet hook
GzGet ==
    /\ \E r \in {gzipUncompress(gz.stored)} :
          gz' = [gz EXCEPT !.last = [fn |-> "Get", arg |-> nil,
                                     b |-> IF r.err # NoError THEN nil ELSE r.b,
                                     err |-> r.err]]
    /\ UNCHANGED <<store, nsVars, klVars, msVars, swVars, rsVars, opVars, ppVars, shVars>>

\* a Set of the key by a cache built without gzip compression
GzLegacySet(value) ==
    /\ gz' = [gz EXCEPT !.stored = value, !.src = "legacy", !.wrote = value,
                        !.last = [fn |-> "LegacySet", arg |-> value, b |-> nil,
                                  err |-> NoError]]
    /\ UNCHANGED <<store, nsVars, klVars, msVars, swVars, rsVars, opVars, ppVars, shVars>>

InitGzip ==
    /\ store = <<>>
    /\ clock = 0
    /\ recyclable = TRUE
    /\ handles = [h \in Handles |-> [nskeys |-> <<"nskey2">>, nsversion |-> 0]]
    /\ lastOp = NoOp
    /\ lastSet = [k \in UserKeys |-> NoSet]
    /\ setVia = [k \in UserKeys |-> {}]
    /\ killed = [k \in UserKeys |-> {}]
    /\ mustMiss = [h \in Handles |-> {}]
    /\ dirty = [h \in Handles |-> FALSE]
    /\ nsteps = 0
    /\ KLIdle
    /\ MultiIdle
    /\ WrapIdle
    /\ ResIdle
    /\ OptIdle
    /\ PipeIdle
    /\ ThreadsIdle
    /\ \E level \in GzLevels :
          gz = [level |-> level, stored |-> nil, src |-> "none", wrote |-> nil,
                last |-> NoGzCall]

NextGzip ==
    \/ \E b \in GzShort : GzSet(Bytes(b))
    \/ GzGet
    \/ \E b \in GzShort \cup GzLong : GzLegacySet(Bytes(b))

SpecGzip == InitGzip /\ [][NextGzip]_vars

\* a Get of a value that a Set of this cache compressed
GzReadBack == gz.last.fn = "Get" /\ gz.src = "set"

\* C24 -- a non-nil value B, the empty one included, written through the gzip
\* before-write hook at a valid level and read back through the after-read
\* hook is B again, present and without error.
GzipRoundTrip ==
    GzReadBack =>
        /\ gz.last.err = NoError
        /\ ~gz.last.b.isNil
        /\ gz.last.b = gz.wrote

\* the empty value is read back as present
GzipRoundTripWitness ==
    /\ GzReadBack
    /\ gz.wrote = Bytes(<<>>)
    /\ gz.last.b = Bytes(<<>>)
    /\ Len(gz.stored.bytes) > 10

\* the stored value begins with the gzip magic bytes
HasMagic(b) == Len(b) >= 2 /\ b[1] = gzipID1 /\ b[2] = gzipID2

\* C25 -- the after-read hook returns a non-nil value of any length that does
\* not begin with the gzip magic bytes unchanged and without error.
GzipPassthrough ==
    (gz.last.fn = "Get" /\ gz.src = "legacy" /\ ~HasMagic(gz.stored.bytes)) =>
        /\ gz.last.err = NoError
        /\ gz.last.b = gz.stored

(***************************************************************************)
(* A cache built with both WithGzipCompression and WithKeyLock over one    *)
(* key.  Each option wraps c.storage with its hooks, so the AfterMGet      *)
(* chain is in the order of the options; BeforeSet holds gzipCompress and  *)
(* AfterSet holds contention.AfterSet in either order.  The callers'       *)
(* contexts have no deadline; a Set is made by the caller that got the     *)
(* miss.                                                                   *)
(***************************************************************************)
OptProcs == 1..MaxOptProcs

\* the AfterMGet chain of NewCache(store, opts...) for the two orders
OptChains == {<<"gzipUncompress", "AfterMGet">>, <<"AfterMGet", "gzipUncompress">>}

\* gzip.DefaultCompression
OptLevel == 0 - 1

\* storageWrapper.MGet's loop over w.afterMGet for the one slot, from hook i
\* on: gzipUncompress, or contention.AfterMGet up to its select
RECURSIVE RunAfterMGet(_, _, _, _)
RunAfterMGet(chain, i, b, entry) ==
    IF i > Len(chain)
    THEN [st |-> "over", b |-> b, err |-> NoError, entry |-> entry, at |-> 0,
          miss |-> FALSE]
    ELSE IF chain[i] = "gzipUncompress"
    THEN LET r == gzipUncompress(b)
         IN IF r.err # NoError
            THEN [st |-> "over", b |-> nil, err |-> r.err, entry |-> entry, at |-> 0,
                  miss |-> FALSE]
            ELSE RunAfterMGet(chain, i + 1, r.b, entry)
    ELSE IF ~b.isNil THEN RunAfterMGet(chain, i + 1, b, entry)
    ELSE IF ~entry.exists
    THEN LET r == RunAfterMGet(chain, i + 1, nil,
                               [NoEntry EXCEPT !.exists = TRUE])
         IN [r EXCEPT !.miss = TRUE]
    ELSE [st |-> "wait", b |-> nil, err |-> NoError,
          entry |-> [entry EXCEPT !.pending = @ + 1], at |-> i, miss |-> FALSE]

\* Cache.Get: the store's MGet, then the AfterMGet chain
OptGet(q) ==
    /\ opt.ncalls < MaxOptCalls
    /\ opt.p[q].pc = "idle"
    /\ \E r \in {RunAfterMGet(opt.chain, 1, opt.stored, opt.entry)} :
          opt' = IF r.st = "wait"
                 THEN [opt EXCEPT !.entry = r.entry, !.p[q].pc = "select",
                                  !.p[q].at = r.at, !.ncalls = @ + 1]
                 ELSE [opt EXCEPT !.entry = r.entry, !.ncalls = @ + 1,
                                  !.p[q].owes = r.miss,
                                  !.last = [fn |-> "Get", who |-> q, b |-> r.b,
                                            err |-> r.err, woken |-> FALSE,
                                            afterSet |-> ~opt.wrote.isNil]]
    /\ UNCHANGED <<store, nsVars, klVars, msVars, swVars, rsVars, gzVars, ppVars, shVars>>

\* contention.AfterMGet from case <-i.done on, then the rest of the chain
OptWake(q) ==
    /\ opt.p[q].pc = "select"
    /\ opt.entry.done
    /\ LET e1 == [opt.entry EXCEPT !.pending = @ - 1]
           e2 == IF e1.pending = 0 THEN NoEntry ELSE e1
           r == RunAfterMGet(opt.chain, opt.p[q].at + 1, opt.entry.b, e2)
       IN opt' = [opt EXCEPT !.entry = r.entry, !.p[q] = IdleOpt,
                             !.last = [fn |-> "Get", who |-> q, b |-> r.b,
                                       err |-> r.err, woken |-> TRUE,
                                       afterSet |-> FALSE]]
    /\ UNCHANGED <<store, nsVars, klVars, msVars, swVars, rsVars, gzVars, ppVars, shVars>>

\* Cache.Set by the caller that got the miss: gzipCompress, the store's Set,
\* then contention.AfterSet
OptSet(q, value) ==
    /\ opt.ncalls < MaxOptCalls
    /\ opt.p[q].pc = "idle"
    /\ opt.p[q].owes
    /\ opt.entry.exists /\ ~opt.entry.done
    /\ \E r \in {gzipCompress(OptLevel, Item("key1", value, Minute))} :
          opt' = IF r.err # NoError
                 THEN [opt EXCEPT !.ncalls = @ + 1,
                                  !.last = [NoOptCall EXCEPT !.fn = "Set", !.who = q,
                                                             !.err = r.err]]
                 ELSE [opt EXCEPT !.ncalls = @ + 1,
                                  !.stored = r.item.Value,
                                  !.wrote = value,
                                  !.p[q].owes = FALSE,
                                  !.entry = IF opt.entry.pending = 0 THEN NoEntry
                                            ELSE [opt.entry EXCEPT !.b = r.item.Value,
                                                                   !.done = TRUE],
                                  !.last = [NoOptCall EXCEPT !.fn = "Set", !.who = q]]
    /\ UNCHANGED <<store, nsVars, klVars, msVars, swVars, rsVars, gzVars, ppVars, shVars>>

InitOpt ==
    /\ store = <<>>
    /\ clock = 0
    /\ recyclable = TRUE
    /\ handles = [h \in Handles |-> [nskeys |-> <<"nskey2">>, nsversion |-> 0]]
    /\ lastOp = NoOp
    /\ lastSet = [k \in UserKeys |-> NoSet]
    /\ setVia = [k \in UserKeys |-> {}]
    /\ killed = [k \in UserKeys |-> {}]
    /\ mustMiss = [h \in Handles |-> {}]
    /\ dirty = [h \in Handles |-> FALSE]
    /\ nsteps = 0
    /\ KLIdle
    /\ MultiIdle
    /\ WrapIdle
    /\ ResIdle
    /\ GzIdle
    /\ PipeIdle
    /\ ThreadsIdle
    /\ \E chain \in OptChains : opt = [NoOpt EXCEPT !.chain = chain]

NextOpt ==
    \/ \E q \in OptProcs : OptGet(q)
    \/ \E q \in OptProcs : OptWake(q)
    \/ \E q \in OptProcs, b \in Payloads : OptSet(q, Bytes(b))

SpecOpt == InitOpt /\ [][NextOpt]_vars

\* C26 -- whichever of the two options is given first, a waiter woken by a Set
\* receives what an ordinary Get issued after the Set returns: the caller's
\* uncompressed value.
OptionOrder ==
    (opt.last.fn = "Get" /\ (opt.last.woken \/ opt.last.afterSet)) =>
        /\ opt.last.err = NoError
        /\ opt.last.b = opt.wrote

\* C27 -- with key-lock enabled, a Set of a key that has no in-flight entry
\* completes normally with the store's result and leaves the in-flight map
\* unchanged.
SetWithoutEntryStep ==
    \A p \in Procs :
        (/\ g[p].pc = "setLock"
         /\ items[g[p].item.Key] = 0
         /\ g'[p] # g[p]) =>
            /\ lastRet' = SetOver(g[p], NoError, "")
            /\ items' = items

SetWithoutEntry == [][SetWithoutEntryStep]_vars

\* C28 -- an in-flight entry's ready signal fires at most once: a second Set of
\* the key that arrives while the entry is still in the map completes without
\* failure and without signalling the entry again.
SecondSetStep ==
    \A p \in Procs :
        (/\ g[p].pc = "setLock"
         /\ items[g[p].item.Key] # 0
         /\ heap[items[g[p].item.Key]].done
         /\ heap[items[g[p].item.Key]].pending > 0
         /\ g'[p] # g[p]) =>
            /\ ~mutexDead'
            /\ g'[p].fn = "over" => lastRet'.panic = ""
            /\ heap'[items[g[p].item.Key]].closedWith
                   = heap[items[g[p].item.Key]].closedWith

SecondSet == [][SecondSetStep]_vars

\* the key lists of the MGets among a list of store calls, in order
MGetKeyLists(calls) ==
    LET mgets == SelectSeq(calls, LAMBDA c : c.fn = "MGet")
    IN [j \in 1..Len(mgets) |-> mgets[j].keys]

\* a Get on a namespace handle whose store calls all succeeded
NSGetSucceeded == lastOp.fn = "CacheNS.Get" /\ lastOp.err = NoError

\* C30 -- round trips of a namespace-handle Get: an unresolved recyclable
\* handle issues exactly one MGet whose keys are N followed by the recyclable
\* wire key; an unresolved versioned handle issues one MGet for N and then one
\* MGet for the versioned wire key; a resolved handle of either strategy issues
\* exactly one MGet holding only the data wire key.
GetRoundTrips ==
    NSGetSucceeded =>
        LET N == GotHandle.nskeys
            wkey == WireKey(lastOp.keys[1], GotHandle.nsversion)
            m == MGetKeyLists(lastOp.calls)
        IN IF ~lastOp.unresolved THEN m = <<<<wkey>>>>
           ELSE IF recyclable THEN m = <<Append(N, wkey)>>
           ELSE m = <<N, <<wkey>>>>

\* an unresolved versioned handle has seeded a namespace key and read the data
GetRoundTripsWitness ==
    /\ NSGetSucceeded
    /\ lastOp.unresolved
    /\ ~recyclable
    /\ Len(lastOp.calls) = 3

(***************************************************************************)
(* The key-locked cache under fair scheduling.  The callers Get, Set and   *)
(* Delete the one key "key1" and no store call fails.  A goroutine that is *)
(* inside a call of the cache and can take its next step takes it in the   *)
(* end; nothing obliges a caller to make a call, and nothing obliges a     *)
(* context to be cancelled (a context without a deadline never is).        *)
(***************************************************************************)
\* the next step of goroutine p inside AfterMGet or AfterSet
Runs(p) ==
    \/ AfterMGetLock(p)
    \/ IncrPending(p)
    \/ SelectDone(p)
    \/ TotPending(p)
    \/ WaiterDelete(p)
    \/ WaiterReturn(p)
    \/ AfterSetLock(p)
    \/ AfterSetTot(p)
    \/ AfterSetDelete(p)

NextKLFair ==
    \/ \E p \in Procs : KLGetMulti(p, <<"key1">>, FALSE)
    \/ \E p \in Procs : AfterMGetLock(p)
    \/ \E p \in Procs : IncrPending(p)
    \/ \E p \in Procs : SelectDone(p)
    \/ \E p \in Procs : SelectCtx(p)
    \/ \E p \in Procs : TotPending(p)
    \/ \E p \in Procs : WaiterDelete(p)
    \/ \E p \in Procs : WaiterReturn(p)
    \/ \E p \in Procs, item \in KLItems : KLSet(p, item, FALSE)
    \/ \E p \in Procs : AfterSetLock(p)
    \/ \E p \in Procs : AfterSetTot(p)
    \/ \E p \in Procs : AfterSetDelete(p)
    \/ KLDelete("key1")
    \/ \E p \in Procs : Abandon(p, "key1")

KLFairness == \A p \in Procs : WF_vars(Runs(p))

SpecKLFair == InitKL /\ [][NextKLFair]_vars /\ KLFairness

\* goroutine p is blocked in the select of AfterMGet on a key of which the
\* call that returned last is a successful Set
BlockedAtSet(p) ==
    /\ g[p].pc = "select"
    /\ lastRet.fn = "Set"
    /\ lastRet.err = NoError
    /\ lastRet.panic = ""
    /\ lastRet.item.Key = Key(p)

\* C29 -- waiter liveness: under fair scheduling every Get blocked on key k
\* returns once a Set of k has completed successfully, also when the waiter's
\* context has no deadline and whatever other waiters arrive, time out and
\* leave.
WaiterLiveness == \A p \in Procs : BlockedAtSet(p) ~> (g[p].pc = "idle")

(***************************************************************************)
(* newStorageWrapper with its three hook slices, and storageWrapper.Set.   *)
(* Slices are windows on the backing arrays of pipe.arrays, as above.      *)
(* Hook n is the n-th StorageHooks value registered: its BeforeSet appends *)
(* the byte n to the value, and the hooks are arbitrary functions, so any  *)
(* one call of a hook may return an error.                                 *)
(***************************************************************************)
ErrHook == "hook failed"

\* which fields of a StorageHooks value are set
HookShapes ==
    [all |-> [AfterMGet |-> TRUE, BeforeSet |-> TRUE, AfterSet |-> TRUE],
     before |-> [AfterMGet |-> FALSE, BeforeSet |-> TRUE, AfterSet |-> FALSE]]

\* the hooks... arguments of one call of newStorageWrapper
PipeHookLists == {<<"before">>, <<"all", "all">>}

PipeBatches ==
    {<<Item("key1", Bytes(<<>>), Minute)>>,
     <<Item("key1", Bytes(<<>>), Minute), Item("key2", Bytes(<<9>>), Minute)>>}

\* the call of a hook, or of the store, that returns an error: the n-th call
\* of a BeforeSet hook, the store's Set, or the n-th call of an AfterSet hook
PipeFaults ==
    {[kind |-> "none", n |-> 0], [kind |-> "Set", n |-> 0]}
        \cup {[kind |-> k, n |-> n] : k \in {"BeforeSet", "AfterSet"}, n \in 1..MaxFault}

BaseWrapper ==
    [Storage |-> "base", afterMGet |-> NilSlice, beforeSet |-> NilSlice,
     afterSet |-> NilSlice,
     regs |-> [afterMGet |-> <<>>, beforeSet |-> <<>>, afterSet |-> <<>>]]

\* for _, h := range hooks: hook id + j is appended to the slice of every
\* field h sets
RECURSIVE RegisterHooks(_, _, _, _, _)
RegisterHooks(arrs, w, shapes, id, j) ==
    IF j > Len(shapes) THEN [arrays |-> arrs, w |-> w]
    ELSE LET h == HookShapes[shapes[j]]
             g1 == IF h.AfterMGet THEN AppendHook(arrs, w.afterMGet, id + j)
                   ELSE [arrays |-> arrs, slice |-> w.afterMGet]
             b1 == IF h.BeforeSet THEN AppendHook(g1.arrays, w.beforeSet, id + j)
                   ELSE [arrays |-> g1.arrays, slice |-> w.beforeSet]
             a1 == IF h.AfterSet THEN AppendHook(b1.arrays, w.afterSet, id + j)
                   ELSE [arrays |-> b1.arrays, slice |-> w.afterSet]
             reg(on, chain) == IF on THEN Append(chain, id + j) ELSE chain
         IN RegisterHooks(a1.arrays,
                          [Storage |-> w.Storage, afterMGet |-> g1.slice,
                           beforeSet |-> b1.slice, afterSet |-> a1.slice,
                           regs |-> [afterMGet |-> reg(h.AfterMGet, w.regs.afterMGet),
                                     beforeSet |-> reg(h.BeforeSet, w.regs.beforeSet),
                                     afterSet |-> reg(h.AfterSet, w.regs.afterSet)]],
                          shapes, id, j + 1)

\* a hook slice as its backing array holds it now
ChainOf(s) == IF s.arr = 0 THEN <<>> ELSE SubSeq(pipe.arrays[s.arr], 1, s.len)

\* newStorageWrapper(storage, hooks...): parent 0 is the base store, parent
\* p > 0 the p-th wrapper built
PipeWrap(parent, shapes) ==
    /\ Len(pipe.wrappers) < MaxPipeWrappers
    /\ \E r \in {RegisterHooks(pipe.arrays,
                               IF parent = 0 THEN BaseWrapper ELSE pipe.wrappers[parent],
                               shapes, pipe.nhooks, 1)} :
          pipe' = [pipe EXCEPT !.arrays = r.arrays,
                               !.wrappers = Append(@, r.w),
                               !.nhooks = @ + Len(shapes)]
    /\ UNCHANGED <<store, nsVars, klVars, msVars, swVars, rsVars, gzVars, opVars, shVars>>

\* BeforeSet of hook n: the item with n appended to its value, or an error
\* and the item without a value
BeforeHook(n, item, fails) ==
    IF fails THEN Item(item.Key, nil, item.TTL)
    ELSE Item(item.Key, Bytes(Append(item.Value.bytes, n)), item.TTL)

\* for i := range items { for _, hook := range w.beforeSet {
\*     items[i], err = hook(ctx, items[i]) } }, from item i and hook j on
RECURSIVE BeforeSetLoop(_, _, _, _, _, _)
BeforeSetLoop(hooks, its, i, j, fault, trace) ==
    IF i > Len(its) THEN [items |-> its, err |-> NoError, trace |-> trace]
    ELSE IF j > Len(hooks) THEN BeforeSetLoop(hooks, its, i + 1, 1, fault, trace)
    ELSE LET fails == fault.kind = "BeforeSet" /\ fault.n = Len(trace) + 1
             its1 == [its EXCEPT ![i] = BeforeHook(hooks[j], its[i], fails)]
             tr1 == Append(trace, [ev |-> "BeforeSet", hook |-> hooks[j], i |-> i,
                                   err |-> IF fails THEN ErrHook ELSE NoError])
         IN IF fails THEN [items |-> its1, err |-> ErrHook, trace |-> tr1]
            ELSE BeforeSetLoop(hooks, its1, i, j + 1, fault, tr1)

\* for i := range items { for _, hook := range w.afterSet {
\*     if err := hook(ctx, items[i]); err != nil { return err } } }
RECURSIVE AfterSetLoop(_, _, _, _, _, _, _)
AfterSetLoop(hooks, its, i, j, fault, trace, done) ==
    IF i > Len(its) THEN [err |-> NoError, trace |-> trace]
    ELSE IF j > Len(hooks) THEN AfterSetLoop(hooks, its, i + 1, 1, fault, trace, done)
    ELSE LET fails == fault.kind = "AfterSet" /\ fault.n = done + 1
             tr1 == Append(trace, [ev |-> "AfterSet", hook |-> hooks[j], i |-> i,
                                   err |-> IF fails THEN ErrHook ELSE NoError])
         IN IF fails THEN [err |-> ErrHook, trace |-> tr1]
            ELSE AfterSetLoop(hooks, its, i, j + 1, fault, tr1, done + 1)

\* storageWrapper.Set(ctx, items...) with the hook slices before and after;
\* sent is the batch handed to w.Storage.Set
storageWrapperSet(before, after, its, fault) ==
    LET b == IF Len(before) > 0 THEN BeforeSetLoop(before, its, 1, 1, fault, <<>>)
             ELSE [items |-> its, err |-> NoError, trace |-> <<>>]
        serr == IF fault.kind = "Set" THEN ErrStore ELSE NoError
        tr1 == Append(b.trace, [ev |-> "Set", hook |-> 0, i |-> 0, err |-> serr])
        r0 == [items |-> b.items, sent |-> b.items, err |-> serr, trace |-> tr1]
    IN IF b.err # NoError
       THEN [items |-> b.items, sent |-> <<>>, err |-> b.err, trace |-> b.trace]
       ELSE IF serr # NoError THEN r0
       ELSE IF Len(after) > 0
       THEN LET a == AfterSetLoop(after, b.items, 1, 1, fault, tr1, 0)
            IN [r0 EXCEPT !.err = a.err, !.trace = a.trace]
       ELSE r0

\* Cache.Set(ctx, item) hands the wrapper a slice of its own; Cache.SetMulti
\* (ctx, items) hands it the caller's slice (c.storage.Set(ctx, items...))
PipeSet(w, fn, its, fault) ==
    /\ fn = "Set" => Len(its) = 1
    /\ \E r \in {storageWrapperSet(ChainOf(pipe.wrappers[w].beforeSet),
                                   ChainOf(pipe.wrappers[w].afterSet), its, fault)} :
          /\ fault.kind = "BeforeSet" => r.err # NoError
          /\ fault.kind = "AfterSet" => r.err # NoError
          /\ pipe' = [pipe EXCEPT !.last =
                        [fn |-> fn, w |-> w, given |-> its,
                         held |-> IF fn = "SetMulti" THEN r.items ELSE its,
                         sent |-> r.sent, err |-> r.err, trace |-> r.trace]]
    /\ UNCHANGED <<store, nsVars, klVars, msVars, swVars, rsVars, gzVars, opVars, shVars>>

InitPipe ==
    /\ store = <<>>
    /\ clock = 0
    /\ recyclable = TRUE
    /\ handles = [h \in Handles |-> [nskeys |-> <<"nskey2">>, nsversion |-> 0]]
    /\ lastOp = NoOp
    /\ lastSet = [k \in UserKeys |-> NoSet]
    /\ setVia = [k \in UserKeys |-> {}]
    /\ killed = [k \in UserKeys |-> {}]
    /\ mustMiss = [h \in Handles |-> {}]
    /\ dirty = [h \in Handles |-> FALSE]
    /\ nsteps = 0
    /\ KLIdle
    /\ MultiIdle
    /\ WrapIdle
    /\ ResIdle
    /\ GzIdle
    /\ OptIdle
    /\ PipeIdle
    /\ ThreadsIdle

NextPipe ==
    \/ \E parent \in 0..Len(pipe.wrappers), shapes \in PipeHookLists :
            PipeWrap(parent, shapes)
    \/ \E w \in 1..Len(pipe.wrappers), fn \in {"Set", "SetMulti"},
          its \in PipeBatches, fault \in PipeFaults : PipeSet(w, fn, its, fault)

SpecPipe == InitPipe /\ [][NextPipe]_vars

(***************************************************************************)
(* Claims on the write pipeline, over SpecPipe.                            *)
(***************************************************************************)
PipeSetDone == pipe.last.fn # "none"

\* the wrapper of the last Set
LastWrapper == pipe.wrappers[pipe.last.w]

\* the calls of one kind among the calls of the last Set, in order
CallsOf(kind) == SelectSeq(pipe.last.trace, LAMBDA e : e.ev = kind)

\* calls are item by item in batch order, and hook by hook within an item
ItemMajor(calls, hooks) ==
    /\ Len(calls) <= Len(pipe.last.given) * Len(hooks)
    /\ \A m \in 1..Len(calls) :
          /\ calls[m].i = ((m - 1) \div Len(hooks)) + 1
          /\ calls[m].hook = hooks[((m - 1) % Len(hooks)) + 1]

\* an item after the BeforeSet hooks have each appended their byte
Threaded(item, hooks) == Item(item.Key, Bytes(item.Value.bytes \o hooks), item.TTL)

\* C31 -- wrapper Set pipeline: each item of the batch, in batch order, passes
\* through all before-write hooks of the wrapper in registration order; if a
\* before-write hook returns an error the store's Set is not called and the
\* error is returned; after-write hooks run only after the store's Set has
\* succeeded, once per item in batch order.
SetPipeline ==
    PipeSetDone =>
        LET before == LastWrapper.regs.beforeSet
            after == LastWrapper.regs.afterSet
            given == pipe.last.given
            bc == CallsOf("BeforeSet")
            sc == CallsOf("Set")
            ac == CallsOf("AfterSet")
        IN /\ ItemMajor(bc, before)
           /\ ItemMajor(ac, after)
           /\ Len(sc) <= 1
           /\ \A m \in 1..Len(bc) :
                 bc[m].err # NoError => (sc = <<>> /\ pipe.last.err = bc[m].err)
           /\ sc # <<>> =>
                 /\ Len(bc) = Len(given) * Len(before)
                 /\ pipe.last.trace[Len(bc) + 1].ev = "Set"
                 /\ pipe.last.sent = [i \in 1..Len(given) |-> Threaded(given[i], before)]
           /\ ac # <<>> => (sc # <<>> /\ sc[1].err = NoError)
           /\ pipe.last.err = NoError =>
                 (sc # <<>> /\ Len(ac) = Len(given) * Len(after))

\* C32 -- hook chains are frozen at construction: however a wrapper is
\* wrapped again afterwards, its after-read, before-write and after-write
\* chains, and those of every other wrapper, stay the ones registered.
FrozenChains ==
    \A w \in 1..Len(pipe.wrappers) :
        /\ ChainOf(pipe.wrappers[w].afterMGet) = pipe.wrappers[w].regs.afterMGet
        /\ ChainOf(pipe.wrappers[w].beforeSet) = pipe.wrappers[w].regs.beforeSet
        /\ ChainOf(pipe.wrappers[w].afterSet) = pipe.wrappers[w].regs.afterSet

\* C37 -- Set and SetMulti on a cache with before-write hooks leave the
\* caller's items unchanged: after the call every item the caller holds has
\* the key, value and TTL the caller supplied.
CallerItemsKept == PipeSetDone => pipe.last.held = pipe.last.given

(***************************************************************************)
(* Threads calling Get and Set on namespace handles over the same keys N,  *)
(* step by step: a step is what a thread does between two accesses to the  *)
(* store, to the clock or to the handle's nsversion field.  Either every   *)
(* thread has a handle of its own, or all of them share handle 1; the      *)
(* accesses to the shared field are not synchronised, and the model takes  *)
(* them one at a time.  The data item a handle writes carries the handle's *)
(* number as its payload.  resAt and mgetAt count the deletions of         *)
(* namespace keys that came before a handle's last assignment of nsversion *)
(* and before its last resolving MGet.                                     *)
(***************************************************************************)
Threads == 1..MaxThreads

\* thread p on handle p, or every thread on handle 1
HandleChoices == {[p \in Threads |-> p], [p \in Threads |-> 1]}

ThreadFns == {"Get", "Set"}

\* if c.nsversion == 0
ThreadBegin(p, fn) ==
    /\ sh.nops < MaxThreadOps
    /\ sh.t[p].pc = "idle"
    /\ LET h == sh.hOf[p]
           unres == sh.nsversion[h] = 0
       IN sh' = [sh EXCEPT !.nops = @ + 1,
                           !.t[p] = [IdleThread EXCEPT !.fn = fn, !.h = h, !.unres = unres,
                                                       !.pc = IF unres THEN "mget"
                                                              ELSE "data"]]
    /\ UNCHANGED <<store, nsVars, klVars, msVars, swVars, rsVars, gzVars, opVars, ppVars>>

\* bb, err := c.cache.storage.MGet(ctx, keys...) of the unresolved branch
ThreadMGet(p) ==
    /\ sh.t[p].pc = "mget"
    /\ LET keys == IF sh.t[p].fn = "Get" /\ recyclable
                   THEN Append(sh.N, buildRecyclableKey("key1")) ELSE sh.N
       IN sh' = [sh EXCEPT !.t[p].bb = StorageMGet(store, keys),
                           !.t[p].pc = "stamp",
                           !.mgetAt[sh.t[p].h] = sh.ndel]
    /\ UNCHANGED <<store, nsVars, klVars, msVars, swVars, rsVars, gzVars, opVars, ppVars>>

\* mostRecentTimestamp: the loop, with one reading of now() per missing key
ThreadStamp(p) ==
    /\ sh.t[p].pc = "stamp"
    /\ \E r \in {mostRecentLoop(sh.N, sh.t[p].bb, 1, clock, 0, <<>>)} :
          /\ r.clock <= MaxClock
          /\ clock' = r.clock
          /\ sh' = [sh EXCEPT !.t[p].ts = r.ts, !.t[p].items = r.items,
                              !.t[p].pc = IF Len(r.items) > 0 THEN "nsset"
                                          ELSE "assign"]
    /\ UNCHANGED <<store, recyclable, nsGhost, klVars, msVars, swVars, rsVars, gzVars,
                   opVars, ppVars>>

\* mostRecentTimestamp: c.cache.storage.Set(ctx, items...)
ThreadNSSet(p) ==
    /\ sh.t[p].pc = "nsset"
    /\ store' = StorageSet(store, sh.t[p].items)
    /\ sh' = [sh EXCEPT !.t[p].pc = "assign"]
    /\ UNCHANGED <<clock, recyclable, nsGhost, klVars, msVars, swVars, rsVars, gzVars,
                   opVars, ppVars>>

\* c.nsversion = ts
ThreadAssign(p) ==
    /\ sh.t[p].pc = "assign"
    /\ sh' = [sh EXCEPT !.nsversion[sh.t[p].h] = sh.t[p].ts,
                        !.resAt[sh.t[p].h] = sh.ndel,
                        !.ran = @ \cup {p},
                        !.t[p].pc = "data"]
    /\ UNCHANGED <<store, nsVars, klVars, msVars, swVars, rsVars, gzVars, opVars, ppVars>>

\* the rest of the call, with c.nsversion as the field holds it now: the Set
\* of the data item, or the data MGet of a Get (none on an unresolved
\* recyclable handle) and the reply
ThreadData(p) ==
    /\ sh.t[p].pc = "data"
    /\ LET h == sh.t[p].h
           v == sh.nsversion[h]
           wkey == IF recyclable THEN buildRecyclableKey("key1")
                   ELSE buildVersionedKey("key1", v)
           b == IF sh.t[p].unres /\ recyclable
                THEN sh.t[p].bb[Len(sh.t[p].bb)]
                ELSE StorageMGet(store, <<wkey>>)[1]
       IN IF sh.t[p].fn = "Set"
          THEN /\ store' = StorageSet(store,
                              <<nsWireItem(recyclable, v,
                                           Item("key1", Bytes(<<h>>), Minute))>>)
               /\ sh' = [sh EXCEPT !.t[p] = IdleThread,
                                   !.last = [fn |-> "Set", h |-> h, b |-> nil]]
          ELSE /\ store' = store
               /\ sh' = [sh EXCEPT !.t[p] = IdleThread,
                                   !.last = [fn |-> "Get", h |-> h,
                                             b |-> nsGetReply(NoBypass, recyclable, v, b)]]
    /\ UNCHANGED <<clock, recyclable, nsGhost, klVars, msVars, swVars, rsVars, gzVars,
                   opVars, ppVars>>

\* Cache.Delete of a namespace key that is stored
ThreadDelete(k) ==
    /\ sh.ndel < MaxDeletes
    /\ k \in Range(sh.N)
    /\ k \in DOMAIN store
    /\ store' = CacheDelete(store, NoBypass, k, 0).store
    /\ sh' = [sh EXCEPT !.ndel = @ + 1]
    /\ UNCHANGED <<clock, recyclable, nsGhost, klVars, msVars, swVars, rsVars, gzVars,
                   opVars, ppVars>>

InitThreads ==
    /\ store = <<>>
    /\ clock = 0
    /\ recyclable \in BOOLEAN
    /\ handles = [h \in Handles |-> [nskeys |-> <<"nskey2">>, nsversion |-> 0]]
    /\ lastOp = NoOp
    /\ lastSet = [k \in UserKeys |-> NoSet]
    /\ setVia = [k \in UserKeys |-> {}]
    /\ killed = [k \in UserKeys |-> {}]
    /\ mustMiss = [h \in Handles |-> {}]
    /\ dirty = [h \in Handles |-> FALSE]
    /\ nsteps = 0
    /\ KLIdle
    /\ MultiIdle
    /\ WrapIdle
    /\ ResIdle
    /\ GzIdle
    /\ OptIdle
    /\ PipeIdle
    /\ \E hOf \in HandleChoices, N \in NSLists :
          sh = [NoThreads EXCEPT !.hOf = hOf, !.N = N,
                                 !.nsversion = [h \in Threads |-> 0],
                                 !.t = [p \in Threads |-> IdleThread],
                                 !.resAt = [h \in Threads |-> 0],
                                 !.mgetAt = [h \in Threads |-> 0]]

NextThreads ==
    \/ \E p \in Threads, fn \in ThreadFns : ThreadBegin(p, fn)
    \/ \E p \in Threads : ThreadMGet(p)
    \/ \E p \in Threads : ThreadStamp(p)
    \/ \E p \in Threads : ThreadNSSet(p)
    \/ \E p \in Threads : ThreadAssign(p)
    \/ \E p \in Threads : ThreadData(p)
    \/ \E k \in NSKeys : ThreadDelete(k)

SpecThreads == InitThreads /\ [][NextThreads]_vars

\* the timestamps stored under the keys of N
StoredStamps(N) ==
    {unmarshalInt64(store[k].bytes) : k \in Range(N) \cap DOMAIN store}

\* two threads or more have run a resolution on the handle all of them share,
\* all calls are over, and no namespace key was deleted
SharedResolved ==
    /\ \A p \in Threads : sh.hOf[p] = 1 /\ sh.t[p].pc = "idle"
    /\ Cardinality(sh.ran) >= 2
    /\ sh.ndel = 0

\* C33 -- shared unresolved handle: when two threads call Get or Set at the
\* same time on the same unresolved handle and both run the resolution, the
\* handle's nsversion, once both are done, is the maximum of the namespace
\* timestamps stored for N.
SharedHandleVersion ==
    SharedResolved => sh.nsversion[1] = MaxOf(StoredStamps(sh.N))

\* every thread calls a handle of its own
OwnHandles == \A p \in Threads : sh.hOf[p] = p

\* the last call is a Get that returned a hit; its bytes name the handle that
\* wrote them
ThreadHit == sh.last.fn = "Get" /\ ~sh.last.b.isNil

\* handle w resolved before a deletion of a namespace key of N, and handle r
\* ran its resolution after that deletion
ResolvedAcrossDelete(w, r) == sh.nsversion[w] # 0 /\ sh.resAt[w] < sh.mgetAt[r]

\* C34 -- a value written by a handle that resolved its nsversion before a
\* namespace key of N was deleted is never returned as a hit by a handle for N
\* that resolved after the deletion, wherever the stale handle's Set falls
\* among the deletion and the steps of the fresh handle's resolution, under
\* both strategies.
StaleNeverHit ==
    (OwnHandles /\ ThreadHit) => ~ResolvedAcrossDelete(sh.last.b.bytes[1], sh.last.h)

(***************************************************************************)
(* Namespace handles over a key-lock storage, recyclable strategy: the     *)
(* handle's Get and Set reach the store through the AfterMGet and AfterSet *)
(* hooks, which see the recyclable key and the stored bytes, version       *)
(* prefix included.                                                        *)
(***************************************************************************)
NSKLKey == buildRecyclableKey("key1")

\* the namespace version the handles have resolved to
NSKLVersion == 2

\* what the store may hold under the recyclable key at the start: nothing, a
\* value of the current namespace version, a value of an older one
NSKLStored ==
    {nil, Bytes(marshalInt64(NSKLVersion) \o <<7>>),
          Bytes(marshalInt64(NSKLVersion - 1) \o <<7>>)}

\* CacheNS.Get on a resolved handle: storage.MGet of the recyclable key, then
\* AfterMGet on the reply; stored bytes pass the hook as a hit, whatever their
\* version, and the handle compares the version afterwards.
NSKLGet(p, h) ==
    /\ ncalls < MaxCalls
    /\ g[p].pc = "idle"
    /\ Spawned(p)
    /\ handles[h].nsversion # 0
    /\ recyclable
    /\ LET bb == StorageMGet(store, <<NSKLKey>>)
           g0 == [IdleG EXCEPT !.fn = "GetMulti", !.keys = <<NSKLKey>>]
           b == nsGetReply(NoBypass, recyclable, handles[h].nsversion, bb[1])
       IN /\ Goes(p, NextSlot([g0 EXCEPT !.mget = bb, !.bb = bb,
                                   !.slots = [j \in 1..1 |->
                                       IF bb[j].isNil THEN NoSlot ELSE HitSlot]], 1))
          /\ recomputers' = [recomputers EXCEPT ![NSKLKey] =
                                IF ~bb[1].isNil /\ b.isNil THEN @ + 1 ELSE @]
    /\ ncalls' = ncalls + 1
    /\ UNCHANGED <<store, nsVars, msVars, swVars, rsVars, gzVars, opVars, ppVars,
                   shVars, items, heap, mutexDead, designated, owing>>

\* CacheNS.Set on a resolved handle: the wire item, then storage.Set and AfterSet
NSKLSet(p, h, item, fail) ==
    /\ handles[h].nsversion # 0
    /\ KLSet(p, nsWireItem(recyclable, handles[h].nsversion, item), fail)

InitKLNS ==
    /\ \E b \in NSKLStored :
          store = [k \in {"nskey2"} \cup (IF b.isNil THEN {} ELSE {NSKLKey}) |->
                      IF k = "nskey2" THEN Bytes(marshalInt64(NSKLVersion)) ELSE b]
    /\ clock = NSKLVersion
    /\ recyclable = TRUE
    /\ handles = [h \in Handles |-> [nskeys |-> <<"nskey2">>, nsversion |-> NSKLVersion]]
    /\ lastOp = NoOp
    /\ lastSet = [k \in UserKeys |-> NoSet]
    /\ setVia = [k \in UserKeys |-> {}]
    /\ killed = [k \in UserKeys |-> {}]
    /\ mustMiss = [h \in Handles |-> {}]
    /\ dirty = [h \in Handles |-> FALSE]
    /\ nsteps = 0
    /\ items = [k \in {NSKLKey} |-> 0]
    /\ heap = <<>>
    /\ mutexDead = FALSE
    /\ g = [p \in Procs |-> IdleG]
    /\ ncalls = 0
    /\ recomputers = [k \in {NSKLKey} |-> 0]
    /\ designated = {}
    /\ owing = {}
    /\ lastRet = IdleG
    /\ cancelled = {}
    /\ MultiIdle
    /\ WrapIdle
    /\ ResIdle
    /\ GzIdle
    /\ OptIdle
    /\ PipeIdle
    /\ ThreadsIdle

NextKLNS ==
    \/ \E p \in Procs, h \in Handles : NSKLGet(p, h)
    \/ \E p \in Procs : AfterMGetLock(p)
    \/ \E p \in Procs : IncrPending(p)
    \/ \E p \in Procs : SelectDone(p)
    \/ \E p \in Procs : SelectCtx(p)
    \/ \E p \in Procs : TotPending(p)
    \/ \E p \in Procs : WaiterDelete(p)
    \/ \E p \in Procs : WaiterReturn(p)
    \/ \E p \in Procs, h \in Handles, item \in KLItems, fail \in BOOLEAN :
            NSKLSet(p, h, item, fail)
    \/ \E p \in Procs : AfterSetLock(p)
    \/ \E p \in Procs : AfterSetTot(p)
    \/ \E p \in Procs : AfterSetDelete(p)
    \/ \E p \in Procs : Abandon(p, NSKLKey)

SpecKLNS == InitKLNS /\ [][NextKLNS]_vars

\* C35 -- key-lock with the recyclable strategy: between a namespace Get of a
\* key that returned a miss without waiting (the key missing from the store, or
\* its stored value older than the namespace version) and the next Set of the
\* key, no other Get of the key returns a miss without waiting.
StaleSingleFlight == recomputers[NSKLKey] <= 1

\* C36 -- MultiStorage.MGet calls a tier after the first only while a key is
\* still missing: no tier after the first is called with an empty key list, and
\* so no tier is called once the last missing key has been supplied.
TiersCalledWhileMissing ==
    MultiMGetDone =>
        \A j \in 2..Len(lastMulti.calls) : lastMulti.calls[j].keys # <<>>

(***************************************************************************)
(* GetMulti with a key list that repeats a key, on a key-lock cache:       *)
(* storageWrapper.MGet runs AfterMGet slot by slot, so the second slot of  *)
(* the key meets the item the first slot installed.                        *)
(***************************************************************************)
DupProcs == 1..MaxDupProcs

DupKeyLists == {<<"key1">>, <<"key1", "key1">>}

NextKLDup ==
    \/ \E p \in DupProcs, keys \in DupKeyLists, fail \in BOOLEAN :
            KLGetMulti(p, keys, fail)
    \/ \E p \in DupProcs : AfterMGetLock(p)
    \/ \E p \in DupProcs : IncrPending(p)
    \/ \E p \in DupProcs : SelectDone(p)
    \/ \E p \in DupProcs : SelectCtx(p)
    \/ \E p \in DupProcs : TotPending(p)
    \/ \E p \in DupProcs : WaiterDelete(p)
    \/ \E p \in DupProcs : WaiterReturn(p)
    \/ \E p \in DupProcs, item \in KLItems, fail \in BOOLEAN : KLSet(p, item, fail)
    \/ \E p \in DupProcs : AfterSetLock(p)
    \/ \E p \in DupProcs : AfterSetTot(p)
    \/ \E p \in DupProcs : AfterSetDelete(p)
    \/ KLDelete("key1")
    \/ \E p \in DupProcs, k \in KLKeys : Abandon(p, k)

SpecKLDup == InitKL /\ [][NextKLDup]_vars

\* the item goroutine p has picked up was installed by a slot of p's own call
WaitsOnOwnItem(p) ==
    /\ g[p].fn = "GetMulti"
    /\ g[p].ptr # 0
    /\ \E j \in 1..Len(g[p].slots) :
          g[p].slots[j].how = "miss" /\ g[p].slots[j].src = g[p].ptr

\* C38 -- a GetMulti whose key list repeats a missing key never waits on the
\* in-flight item that the same call installed.
NoSelfWait == \A p \in DupProcs : ~WaitsOnOwnItem(p)

\* C39 -- a GetMulti that returns no error returns a reply with exactly one
\* slot for each requested key, in every flow mode; under BypassReading and
\* BypassReadWriting every slot is a miss.
SlotPerKey ==
    (lastOp.fn = "Cache.GetMulti" /\ lastOp.err = NoError) =>
        /\ Len(lastOp.bb.slots) = Len(lastOp.keys)
        /\ Bypassing => \A i \in 1..Len(lastOp.bb.slots) : lastOp.bb.slots[i].isNil

====
